---------------------------- MODULE Spec2Model ----------------------------
(***************************************************************************)
(* A model of the mbox parser of midbel/mbox (src/mbox.go).                *)
(*                                                                         *)
(* A string is a sequence of one-character strings.  A reader (the         *)
(* *bufio.Reader of the source) is the sequence of the lines not yet read: *)
(* every line ends with "\n" except, possibly, the last one of the stream. *)
(* Every read of the source starts at a line start (the one-byte lookahead *)
(* of readHeader is either undone or followed by a read to the end of the  *)
(* line), so the position of a reader is always a number of whole lines.   *)
(* A []byte body is kept as the sequence of the lines appended to it.      *)
(***************************************************************************)
EXTENDS Integers, Sequences, FiniteSets, TLC

(***************************************************************************)
(* Errors: the values of Go's error results.                               *)
(***************************************************************************)
Nil == "nil"
EOF == "io.EOF"
ErrFromLine == "expected From Line"
ErrMissingColon == "missing colon in header"
ErrEmptyBoundary == "empty boundary delimiter"
ErrMime == "mime: invalid media type"

(***************************************************************************)
(* Constants of src/mbox.go.                                               *)
(***************************************************************************)
fromLinePrefix == <<"F","r","o","m"," ">>
hdrMimeVersion == <<"M","I","M","E","-","V","e","r","s","i","o","n">>
hdrContentType == <<"C","o","n","t","e","n","t","-","T","y","p","e">>
hdrContentDispo == <<"C","o","n","t","e","n","t","-","D","i","s","p","o","s","i","t","i","o","n">>
hdrContentEncoding == <<"C","o","n","t","e","n","t","-","T","r","a","n","s","f","e","r","-","E","n","c","o","d","i","n","g">>
hdrDate == <<"d","a","t","e">>
hdrFrom == <<"f","r","o","m">>
hdrTo == <<"t","o">>
hdrCc == <<"c","c">>
hdrInReplyTo == <<"i","n","-","r","e","p","l","y","-","t","o">>
encBase64 == <<"b","a","s","e","6","4">>
encQuoted == <<"q","u","o","t","e","d","-","p","r","i","n","t","a","b","l","e">>
multiPart == <<"m","u","l","t","i","p","a","r","t">>
multiBound == <<"b","o","u","n","d","a","r","y">>

(***************************************************************************)
(* strings / bytes helpers, computed as the Go library computes them.      *)
(* Index is 1-based and 0 when the character is absent (Go: 0-based, -1).  *)
(***************************************************************************)
WhiteSpace == {" ", "\t", "\n", "\r"}

RECURSIVE firstNonSpace(_, _)
firstNonSpace(s, i) ==
    IF i > Len(s) THEN i ELSE IF s[i] \notin WhiteSpace THEN i ELSE firstNonSpace(s, i + 1)

RECURSIVE lastNonSpace(_, _)
lastNonSpace(s, i) ==
    IF i < 1 THEN i ELSE IF s[i] \notin WhiteSpace THEN i ELSE lastNonSpace(s, i - 1)

TrimSpace(s) == SubSeq(s, firstNonSpace(s, 1), lastNonSpace(s, Len(s)))

HasPrefix(s, p) == Len(s) >= Len(p) /\ SubSeq(s, 1, Len(p)) = p

HasSuffix(s, p) == Len(s) >= Len(p) /\ SubSeq(s, Len(s) - Len(p) + 1, Len(s)) = p

RECURSIVE indexFrom(_, _, _)
indexFrom(s, c, i) ==
    IF i > Len(s) THEN 0 ELSE IF s[i] = c THEN i ELSE indexFrom(s, c, i + 1)

Index(s, c) == indexFrom(s, c, 1)

RECURSIVE Split(_, _)
Split(s, sep) ==
    LET i == Index(s, sep)
    IN  IF i = 0 THEN << s >>
        ELSE << SubSeq(s, 1, i - 1) >> \o Split(SubSeq(s, i + 1, Len(s)), sep)

LowerLetters == <<"a","b","c","d","e","f","g","h","i","j","k","l","m","n","o","p","q","r","s","t","u","v","w","x","y","z">>
UpperLetters == <<"A","B","C","D","E","F","G","H","I","J","K","L","M","N","O","P","Q","R","S","T","U","V","W","X","Y","Z">>

upperOf == [c \in {LowerLetters[i] : i \in 1..26} |-> UpperLetters[Index(LowerLetters, c)]]
lowerOf == [c \in {UpperLetters[i] : i \in 1..26} |-> LowerLetters[Index(UpperLetters, c)]]

ToUpperByte(c) == IF c \in DOMAIN upperOf THEN upperOf[c] ELSE c

ToLowerByte(c) == IF c \in DOMAIN lowerOf THEN lowerOf[c] ELSE c

ToLower(s) == [i \in 1..Len(s) |-> ToLowerByte(s[i])]

(***************************************************************************)
(* net/textproto.CanonicalMIMEHeaderKey: a key holding a byte that is not  *)
(* a header-token byte is returned unchanged; otherwise the first letter   *)
(* and every letter after a hyphen are upper-cased, the others lower-cased.*)
(***************************************************************************)
headerFieldBytes ==
    DOMAIN upperOf \cup DOMAIN lowerOf
    \cup {"0", "1", "2", "3", "4", "5", "6", "7", "8", "9"}
    \cup {"-", "_", ".", "!", "#", "$", "%", "&", "+", "^", "|", "~"}

validHeaderFieldByte(c) == c \in headerFieldBytes

CanonicalMIMEHeaderKey(k) ==
    IF \E i \in 1..Len(k) : ~validHeaderFieldByte(k[i]) THEN k
    ELSE [i \in 1..Len(k) |->
            IF i = 1 \/ k[i - 1] = "-" THEN ToUpperByte(k[i]) ELSE ToLowerByte(k[i])]

(***************************************************************************)
(* Bind(v, Op) is Op(v): it names the result of a call, as a Go short      *)
(* variable declaration (r, err := f()) does, for the code that follows.   *)
(* It is written with a bound variable so that v is evaluated once, also   *)
(* where an action is evaluated for ENABLED.                               *)
(***************************************************************************)
Bind(v, Op(_)) == CHOOSE y \in {Op(x) : x \in {v}} : TRUE

(***************************************************************************)
(* type Header map[string][]string                                         *)
(***************************************************************************)
EmptyHeader == << >>

Has(h, k) == CanonicalMIMEHeaderKey(k) \in DOMAIN h

Add(h, k, v) ==
    LET ck == CanonicalMIMEHeaderKey(k)
    IN  IF ck \in DOMAIN h
        THEN [h EXCEPT ![ck] = Append(@, TrimSpace(v))]
        ELSE h @@ (ck :> << TrimSpace(v) >>)

GetFirst(h, k) ==
    LET ck == CanonicalMIMEHeaderKey(k)
    IN  IF ck \in DOMAIN h /\ Len(h[ck]) > 0 THEN h[ck][1] ELSE << >>

Get(h, k) ==
    LET ck == CanonicalMIMEHeaderKey(k)
    IN  IF ck \in DOMAIN h /\ Len(h[ck]) > 0 THEN h[ck][Len(h[ck])] ELSE << >>

(***************************************************************************)
(* github.com/midbel/mime.Parse, as src/mbox.go uses it: the media type    *)
(* "main/sub" and its ";"-separated "name=value" parameters (names in      *)
(* lower case, values without their quotes).  A value without "/" is an    *)
(* error and yields the zero MediaType.                                    *)
(***************************************************************************)
RECURSIVE Unquote(_)
Unquote(s) ==
    IF s # << >> /\ Head(s) = "\"" THEN Unquote(Tail(s))
    ELSE IF s # << >> /\ s[Len(s)] = "\"" THEN Unquote(SubSeq(s, 1, Len(s) - 1))
    ELSE s

RECURSIVE mimeParams(_)
mimeParams(segs) ==
    IF segs = << >> THEN << >>
    ELSE LET seg == TrimSpace(Head(segs))
             eq == Index(seg, "=")
             rest == mimeParams(Tail(segs))
         IN  IF eq = 0 THEN rest
             ELSE LET name == ToLower(TrimSpace(SubSeq(seg, 1, eq - 1)))
                      val == Unquote(TrimSpace(SubSeq(seg, eq + 1, Len(seg))))
                  IN  IF name \in DOMAIN rest THEN rest ELSE rest @@ (name :> val)

mimeParse(str) ==
    LET segs == Split(str, ";")
        main == TrimSpace(Head(segs))
        slash == Index(main, "/")
    IN  IF slash = 0
        THEN [MainType |-> << >>, SubType |-> << >>, Params |-> << >>, err |-> ErrMime]
        ELSE [MainType |-> ToLower(SubSeq(main, 1, slash - 1)),
              SubType |-> ToLower(SubSeq(main, slash + 1, Len(main))),
              Params |-> mimeParams(Tail(segs)),
              err |-> Nil]

Param(mt, name) == IF name \in DOMAIN mt.Params THEN mt.Params[name] ELSE << >>

(***************************************************************************)
(* Message and Part accessors.                                             *)
(***************************************************************************)
IsMime(m) == Has(m.Header, hdrMimeVersion)

IsMultipartWithoutMime(m) == mimeParse(Get(m.Header, hdrContentType)).MainType = multiPart

IsMultipart(m) ==
    IF ~IsMime(m) THEN FALSE
    ELSE mimeParse(Get(m.Header, hdrContentType)).MainType = multiPart

PartIsMultipart(p) == mimeParse(Get(p.Header, hdrContentType)).MainType = multiPart

(***************************************************************************)
(* parseValueField, lines 456-471: the text before the first ";" and the   *)
(* parameters of the ";"-separated segments after it.  A segment without   *)
(* "=" makes vs[1] an index out of range: the call panics and returns      *)
(* nothing, which is the result with panic TRUE.                           *)
(***************************************************************************)
RECURSIVE Trim(_, _)
Trim(s, cutset) ==
    IF s # << >> /\ Head(s) \in cutset THEN Trim(Tail(s), cutset)
    ELSE IF s # << >> /\ s[Len(s)] \in cutset THEN Trim(SubSeq(s, 1, Len(s) - 1), cutset)
    ELSE s

MapGet(ps, key) == IF key \in DOMAIN ps THEN ps[key] ELSE << >>

RECURSIVE valueParams(_, _)
valueParams(parts, ps) ==
    IF parts = << >> THEN [ps |-> ps, panic |-> FALSE]
    ELSE Bind(Split(TrimSpace(Head(parts)), "="), LAMBDA vs :
           IF Len(vs) < 2 THEN [ps |-> << >>, panic |-> TRUE]
           ELSE valueParams(Tail(parts),
                    (TrimSpace(ToLower(vs[1])) :> Trim(vs[2], {"\"", " "})) @@ ps))

parseValueField(str) ==
    Bind(Split(str, ";"), LAMBDA parts :
      IF Len(parts) = 1 THEN [hdr |-> parts[1], ps |-> << >>, panic |-> FALSE]
      ELSE Bind(valueParams(Tail(parts), << >>), LAMBDA r :
             [hdr |-> IF r.panic THEN << >> ELSE parts[1], ps |-> r.ps, panic |-> r.panic]))

(***************************************************************************)
(* Header.Split, lines 253-260 (HeaderSplit here, Split being              *)
(* strings.Split), Header.Set, lines 262-268, and Header.Del, lines        *)
(* 270-273.  Set empties the list of the key when it holds values and then *)
(* calls Add; Del removes the key from the map.                            *)
(***************************************************************************)
HeaderSplit(h, k) ==
    Bind(CanonicalMIMEHeaderKey(k), LAMBDA ck :
        IF ck \notin DOMAIN h \/ Len(h[ck]) # 1
        THEN [hdr |-> << >>, ps |-> << >>, panic |-> FALSE]
        ELSE parseValueField(h[ck][1]))

SetKeepsValues(h, k, v) == Add(h, CanonicalMIMEHeaderKey(k), v)

Set(h, k, v) ==
    Bind(CanonicalMIMEHeaderKey(k), LAMBDA ck :
        Add(IF ck \in DOMAIN h /\ Len(h[ck]) > 0 THEN [h EXCEPT ![ck] = << >>] ELSE h, ck, v))

Del(h, k) ==
    Bind(CanonicalMIMEHeaderKey(k), LAMBDA ck : [x \in DOMAIN h \ {ck} |-> h[x]])

(***************************************************************************)
(* Part.Filename, lines 175-189, and Message.Files, lines 96-104.  The     *)
(* result is the string returned, or panic TRUE when the call panics.      *)
(***************************************************************************)
Returned(v) == [val |-> v, panic |-> FALSE]

Panicked == [val |-> << >>, panic |-> TRUE]

contentTypeName(p) ==
    Bind(mimeParse(Get(p.Header, hdrContentType)), LAMBDA mt :
      IF mt.err = Nil THEN Param(mt, <<"n","a","m","e">>) ELSE << >>)

Filename(p) ==
    Bind(parseValueField(Get(p.Header, hdrContentDispo)), LAMBDA r :
      IF r.panic THEN Panicked
      ELSE IF r.hdr = <<"a","t","t","a","c","h","m","e","n","t">> \/ r.hdr = <<"i","n","l","i","n","e">>
      THEN IF MapGet(r.ps, <<"f","i","l","e","n","a","m","e">>) # << >>
           THEN Returned(MapGet(r.ps, <<"f","i","l","e","n","a","m","e">>))
           ELSE Returned(contentTypeName(p))
      ELSE Returned(<< >>))

(***************************************************************************)
(* Part.IsAttachment, lines 191-194, and Part.IsInline, lines 196-199.     *)
(***************************************************************************)
IsAttachment(p) ==
    Bind(parseValueField(Get(p.Header, hdrContentDispo)), LAMBDA r :
      IF r.panic THEN Panicked ELSE Returned(r.hdr = <<"a","t","t","a","c","h","m","e","n","t">>))

IsInline(p) ==
    Bind(parseValueField(Get(p.Header, hdrContentDispo)), LAMBDA r :
      IF r.panic THEN Panicked ELSE Returned(r.hdr = <<"i","n","l","i","n","e">>))

RECURSIVE filesLoop(_, _)
filesLoop(parts, files) ==
    IF parts = << >> THEN Returned(files)
    ELSE Bind(Filename(Head(parts)), LAMBDA file :
           IF file.panic THEN Panicked
           ELSE filesLoop(Tail(parts),
                          IF file.val # << >> THEN Append(files, file.val) ELSE files))

Files(m) == filesLoop(m.Parts, << >>)

(***************************************************************************)
(* Part.Bytes, lines 171-173, and Part.decodeBody, lines 206-228.  A byte  *)
(* of decoded content is written as its character when it is printable,    *)
(* a tab, a carriage return or a line feed, and as "\x" and its number     *)
(* otherwise (also for the grave accent, which a TLA+ string cannot       *)
(* hold).  The decoded content is one run of bytes; a Body that is         *)
(* returned as it is stays the sequence of its lines.                      *)
(*                                                                         *)
(* base64: bufio.Scanner gives each line without its terminator, the lines *)
(* are written to one buffer, and the decoder of encoding/base64 reads the *)
(* buffer through a filter that drops every "\r" and "\n".  It decodes the *)
(* whole quanta of four characters it has read and hands the bytes written *)
(* before a corrupt quantum to ioutil.ReadAll together with the error;     *)
(* ReadAll returns the bytes it has received and decodeBody drops the      *)
(* error (line 226).  The characters left after the last whole quantum     *)
(* give an error and no bytes.  The bodies of the model fit the decoder's  *)
(* first chunk and a Scanner line (the Scanner's error of line 217 needs a *)
(* line of more than 64 KiB).                                              *)
(*                                                                         *)
(* quoted-printable: the reader of mime/quotedprintable takes the body line*)
(* by line, drops the white space at the end of a line, joins a line that  *)
(* ends with "=" to the next one, resolves "=XX", takes another "=" as it  *)
(* is, and stops at the first error with the bytes read so far.            *)
(***************************************************************************)
base64Alphabet == <<"A","B","C","D","E","F","G","H","I","J","K","L","M","N","O","P","Q","R","S","T","U","V","W","X","Y","Z","a","b","c","d","e","f","g","h","i","j","k","l","m","n","o","p","q","r","s","t","u","v","w","x","y","z","0","1","2","3","4","5","6","7","8","9","+","/">>

printable ==
    <<" ","!","\"","#","$","%","&","'","(",")","*","+",",","-",".","/","0","1","2","3","4","5","6","7","8","9",":",";","<","=",">","?","@","A","B","C","D","E","F","G","H","I","J","K","L","M","N","O","P","Q","R","S","T","U","V","W","X","Y","Z","[","\\","]","^","_">> \o << "\\x96" >> \o
    <<"a","b","c","d","e","f","g","h","i","j","k","l","m","n","o","p","q","r","s","t","u","v","w","x","y","z","{","|","}","~">>

hexDigits == <<"0","1","2","3","4","5","6","7","8","9","A","B","C","D","E","F">>

Chr(b) ==
    IF b \in 32..126 THEN printable[b - 31]
    ELSE IF b = 9 THEN "\t"
    ELSE IF b = 10 THEN "\n"
    ELSE IF b = 13 THEN "\r"
    ELSE "\\x" \o ToString(b)

decodeMap(c) == Index(base64Alphabet, c) - 1

quantumBytes(v, dlen) ==
    SubSeq(<< Chr((v[1] * 4 + v[2] \div 16) % 256),
              Chr(((v[2] % 16) * 16 + v[3] \div 4) % 256),
              Chr(((v[3] % 4) * 64 + v[4]) % 256) >>, 1, dlen - 1)

corruptInput == [n |-> << >>, err |-> TRUE]

decodeQuantum(src, si) ==
    Bind(SubSeq(src, si, si + 3), LAMBDA q :
    Bind([j \in 1..4 |-> decodeMap(q[j])], LAMBDA v :
        IF \A j \in 1..4 : v[j] >= 0 THEN [n |-> quantumBytes(v, 4), err |-> FALSE]
        ELSE IF v[1] < 0 \/ v[2] < 0 THEN corruptInput
        ELSE IF v[3] < 0
             THEN IF q[3] = "=" /\ q[4] = "="
                  THEN [n |-> quantumBytes(<< v[1], v[2], 0, 0 >>, 2), err |-> si + 3 < Len(src)]
                  ELSE corruptInput
        ELSE IF q[4] = "="
             THEN [n |-> quantumBytes(<< v[1], v[2], v[3], 0 >>, 3), err |-> si + 3 < Len(src)]
             ELSE corruptInput))

RECURSIVE base64Decode(_, _)
base64Decode(src, si) ==
    IF si > Len(src) THEN << >>
    ELSE Bind(decodeQuantum(src, si), LAMBDA r :
             IF r.err THEN r.n ELSE r.n \o base64Decode(src, si + 4))

scanBytes(line) ==
    IF HasSuffix(line, <<"\r","\n">>) THEN SubSeq(line, 1, Len(line) - 2)
    ELSE IF HasSuffix(line, <<"\n">>) THEN SubSeq(line, 1, Len(line) - 1)
    ELSE IF HasSuffix(line, <<"\r">>) THEN SubSeq(line, 1, Len(line) - 1)
    ELSE line

RECURSIVE scanAll(_)
scanAll(body) ==
    IF body = << >> THEN << >> ELSE scanBytes(Head(body)) \o scanAll(Tail(body))

newlineFiltered(s) == SelectSeq(s, LAMBDA c : c \notin {"\r", "\n"})

base64Reader(body) ==
    Bind(newlineFiltered(scanAll(body)), LAMBDA src :
        base64Decode(SubSeq(src, 1, (Len(src) \div 4) * 4), 1))

fromHex(c) == Index(hexDigits, ToUpperByte(c)) - 1

readsHexByte(line) == Len(line) >= 3 /\ fromHex(line[2]) >= 0 /\ fromHex(line[3]) >= 0

RECURSIVE qpBytes(_)
qpBytes(line) ==
    IF line = << >> THEN [n |-> << >>, err |-> FALSE]
    ELSE IF line[1] # "=" THEN
        Bind(qpBytes(Tail(line)), LAMBDA r : [n |-> << line[1] >> \o r.n, err |-> r.err])
    ELSE IF readsHexByte(line) THEN
        Bind(qpBytes(SubSeq(line, 4, Len(line))), LAMBDA r :
            [n |-> << Chr(16 * fromHex(line[2]) + fromHex(line[3])) >> \o r.n, err |-> r.err])
    ELSE IF Len(line) >= 2 /\ line[2] \notin {"\r", "\n"} THEN
        Bind(qpBytes(Tail(line)), LAMBDA r : [n |-> << "=" >> \o r.n, err |-> r.err])
    ELSE [n |-> << >>, err |-> TRUE]

RECURSIVE trimRightQP(_)
trimRightQP(line) ==
    IF line # << >> /\ line[Len(line)] \in {" ", "\t", "\r", "\n"}
    THEN trimRightQP(SubSeq(line, 1, Len(line) - 1))
    ELSE line

qpLine(whole, last) ==
    Bind(trimRightQP(whole), LAMBDA line :
        IF HasSuffix(line, <<"=">>)
        THEN Bind(SubSeq(whole, Len(line) + 1, Len(whole)), LAMBDA rightStripped :
                 [line |-> SubSeq(line, 1, Len(line) - 1),
                  rerr |-> /\ ~HasPrefix(rightStripped, <<"\n">>)
                           /\ ~HasPrefix(rightStripped, <<"\r","\n">>)
                           /\ ~(rightStripped = << >> /\ Len(line) > 1 /\ last)])
        ELSE IF HasSuffix(whole, <<"\r","\n">>) THEN [line |-> line \o <<"\r","\n">>, rerr |-> FALSE]
        ELSE IF HasSuffix(whole, <<"\n">>) THEN [line |-> line \o <<"\n">>, rerr |-> FALSE]
        ELSE [line |-> line, rerr |-> FALSE])

RECURSIVE quotedprintableReader(_)
quotedprintableReader(body) ==
    IF body = << >> THEN << >>
    ELSE Bind(qpLine(Head(body), Len(body) = 1), LAMBDA l :
         Bind(qpBytes(l.line), LAMBDA r :
             IF r.err \/ l.rerr THEN r.n ELSE r.n \o quotedprintableReader(Tail(body))))

decodeBody(p) ==
    Bind(ToLower(Get(p.Header, hdrContentEncoding)), LAMBDA enc :
        IF enc = encBase64 THEN base64Reader(p.Body)
        ELSE IF enc = encQuoted THEN quotedprintableReader(p.Body)
        ELSE p.Body)

Bytes(p) == decodeBody(p)

(***************************************************************************)
(* parseAddress, lines 473-484, parseAddressList, lines 486-495, and the   *)
(* accessors From, To and Cc, lines 114-124.  Go's index i > 0 is the      *)
(* index j > 1 here.                                                       *)
(***************************************************************************)
afterBracket(str) ==
    IF Index(str, ">") > 1 THEN SubSeq(str, 1, Index(str, ">") - 1) ELSE str

parseAddress(str) ==
    IF Index(str, "<") = 0 THEN str
    ELSE afterBracket(SubSeq(str, Index(str, "<") + 1, Len(str)))

parseAddressList(str) ==
    Bind(Split(str, ","), LAMBDA ms : [i \in 1..Len(ms) |-> parseAddress(ms[i])])

From(m) == parseAddress(Get(m.Header, hdrFrom))

To(m) == parseAddressList(Get(m.Header, hdrTo))

Cc(m) == parseAddressList(Get(m.Header, hdrCc))

(***************************************************************************)
(* parseTime, lines 442-454, and Message.Date, lines 106-108.  A time.Time *)
(* is the number of hours from the end of 2019 to its instant; the zero    *)
(* Time, for which IsZero holds, is 0.  timeParse gives, for the texts of  *)
(* the model, the instant that time.Parse finds under the first pattern of *)
(* timePattern that fits; parseTime is the zero Time for any other text.   *)
(* UTC() changes the location of a Time, not its instant.                  *)
(***************************************************************************)
timeParse ==
    (<<"W","e","d",","," ","1"," ","J","a","n"," ","2","0","2","0"," ","0","0",":","0","0",":","0","0"," ","+","0","0","0","0">> :> 24)
    @@ (<<"T","h","u",","," ","2"," ","J","a","n"," ","2","0","2","0"," ","0","0",":","0","0",":","0","0"," ","+","0","0","0","0">> :> 48)
    @@ (<<"T","h","u",","," ","2"," ","J","a","n"," ","2","0","2","0"," ","0","1",":","0","0",":","0","0"," ","+","0","1","0","0"," ","(","C","E","T",")">> :> 48)
    @@ (<<"F","r","i",","," ","3"," ","J","a","n"," ","2","0","2","0"," ","0","0",":","0","0",":","0","0"," ","+","0","0","0","0">> :> 72)

parseTime(str) == IF str \in DOMAIN timeParse THEN timeParse[str] ELSE 0

Date(m) == parseTime(Get(m.Header, hdrDate))

IsZero(t) == t = 0

After(t, u) == t > u

IsReplyWithValue(m) == Get(m.Header, hdrInReplyTo) # << >>

IsReply(m) == Has(m.Header, hdrInReplyTo)

(***************************************************************************)
(* bufio.Reader.  ReadString and ReadBytes return the next line, with      *)
(* io.EOF when the stream ends before a "\n" (the bytes read so far are    *)
(* returned with the error).  Peek(n) returns the next n bytes, fewer with *)
(* io.EOF when the stream holds fewer than n.                              *)
(***************************************************************************)
ReadString(rs) ==
    IF rs = << >> THEN [line |-> << >>, err |-> EOF, rs |-> << >>]
    ELSE [line |-> Head(rs),
          err |-> IF Head(rs)[Len(Head(rs))] = "\n" THEN Nil ELSE EOF,
          rs |-> Tail(rs)]

RECURSIVE Peek(_, _)
Peek(rs, n) ==
    IF n = 0 THEN [chunk |-> << >>, err |-> Nil]
    ELSE IF rs = << >> THEN [chunk |-> << >>, err |-> EOF]
    ELSE IF Len(Head(rs)) >= n THEN [chunk |-> SubSeq(Head(rs), 1, n), err |-> Nil]
    ELSE LET more == Peek(Tail(rs), n - Len(Head(rs)))
         IN  [chunk |-> Head(rs) \o more.chunk, err |-> more.err]

(***************************************************************************)
(* readHeader, lines 401-435.  readContinuation is the inner loop of lines *)
(* 420-431: ReadByte looks at the first byte of the next line; a tab or a  *)
(* space makes that line a continuation, any other byte is unread.  At the *)
(* end of the stream ReadByte fails and the loop ends.                     *)
(***************************************************************************)
RECURSIVE readContinuationUnjoined(_, _)
readContinuationUnjoined(rs, value) ==
    IF rs # << >> /\ Head(rs)[1] \in {"\t", " "}
    THEN readContinuationUnjoined(Tail(rs), value \o Tail(Head(rs)))
    ELSE [value |-> value, rs |-> rs]

RECURSIVE readContinuation(_, _)
readContinuation(rs, value) ==
    IF rs # << >> /\ Head(rs)[1] \in {"\t", " "}
    THEN LET next == Head(rs)[1]
             str == Tail(Head(rs))
         IN  readContinuation(Tail(rs),
                 value \o << " " >> \o (IF next = " " THEN TrimSpace(str) ELSE str))
    ELSE [value |-> value, rs |-> rs]

RECURSIVE readHeaderLoop(_, _)
readHeaderLoop(rs, hdr) ==
    Bind(ReadString(rs), LAMBDA r :
      IF r.err = EOF THEN [hdr |-> hdr, err |-> Nil, rs |-> r.rs]
      ELSE Bind(TrimSpace(r.line), LAMBDA line :
        IF Len(line) = 0 THEN [hdr |-> hdr, err |-> Nil, rs |-> r.rs]
        ELSE Bind(Index(line, ":"), LAMBDA ix :
          IF ix = 0 THEN [hdr |-> EmptyHeader, err |-> ErrMissingColon, rs |-> r.rs]
          ELSE Bind(readContinuation(r.rs, TrimSpace(SubSeq(line, ix + 1, Len(line)))),
                    LAMBDA c :
                      readHeaderLoop(c.rs, Add(hdr, SubSeq(line, 1, ix - 1), c.value))))))

readHeader(rs) == readHeaderLoop(rs, EmptyHeader)

(***************************************************************************)
(* skipProlog, lines 363-374.                                              *)
(***************************************************************************)
RECURSIVE skipProlog(_, _)
skipProlog(rs, boundary) ==
    Bind(ReadString(rs), LAMBDA r :
      IF r.err # Nil THEN [err |-> r.err, rs |-> r.rs]
      ELSE IF TrimSpace(r.line) = boundary THEN [err |-> Nil, rs |-> r.rs]
      ELSE skipProlog(r.rs, boundary))

(***************************************************************************)
(* skipEpilog, lines 342-361.  A nil boundary is the empty string here.    *)
(***************************************************************************)
RECURSIVE skipEpilogLoop(_, _)
skipEpilogLoop(rs, boundary) ==
    Bind(Peek(rs, Len(boundary)), LAMBDA p :
      IF p.err # Nil THEN rs
      ELSE IF p.chunk = boundary THEN rs
      ELSE skipEpilogLoop(ReadString(rs).rs, boundary))

skipEpilog(rs, boundary) ==
    skipEpilogLoop(rs, IF boundary = << >> THEN fromLinePrefix ELSE boundary)

(***************************************************************************)
(* readPlain, lines 376-399: the body and the reader left behind.          *)
(***************************************************************************)
RECURSIVE readPlainLoopToIndentedFrom(_, _)
readPlainLoopToIndentedFrom(rs, buffer) ==
    IF rs # << >> /\ HasPrefix(TrimSpace(Head(rs)), TrimSpace(fromLinePrefix))
    THEN [buffer |-> buffer, rs |-> rs]
    ELSE Bind(ReadString(rs), LAMBDA r :
           Bind(IF Len(r.line) > 0 THEN Append(buffer, r.line) ELSE buffer, LAMBDA more :
             IF r.err # Nil THEN [buffer |-> more, rs |-> r.rs]
             ELSE readPlainLoopToIndentedFrom(r.rs, more)))

RECURSIVE readPlainLoop(_, _)
readPlainLoop(rs, buffer) ==
    IF Peek(rs, Len(fromLinePrefix)).chunk = fromLinePrefix
    THEN [buffer |-> buffer, rs |-> rs]
    ELSE Bind(ReadString(rs), LAMBDA r :
           Bind(IF Len(r.line) > 0 THEN Append(buffer, r.line) ELSE buffer, LAMBDA more :
             IF r.err # Nil THEN [buffer |-> more, rs |-> r.rs]
             ELSE readPlainLoop(r.rs, more)))

readPlainDropsEmpty(rs) ==
    Bind(readPlainLoop(rs, << >>), LAMBDA b :
      [Parts |-> IF b.buffer = << >> THEN << >>
                 ELSE << [Header |-> EmptyHeader, Body |-> b.buffer] >>,
       err |-> Nil, rs |-> b.rs])

readPlain(rs) ==
    Bind(readPlainLoop(rs, << >>), LAMBDA b :
      [Parts |-> << [Header |-> EmptyHeader, Body |-> b.buffer] >>,
       err |-> Nil, rs |-> b.rs])

(***************************************************************************)
(* readPartBody is the loop of readPart, lines 309-319: the lines up to    *)
(* the first one that starts with the boundary, and that line trimmed.     *)
(***************************************************************************)
RECURSIVE readPartBodyToDelimiterLine(_, _, _)
readPartBodyToDelimiterLine(rs, boundary, body) ==
    Bind(ReadString(rs), LAMBDA r :
      IF r.err # Nil THEN [Body |-> << >>, str |-> << >>, err |-> r.err, rs |-> r.rs]
      ELSE IF TrimSpace(r.line) = boundary
      THEN [Body |-> body, str |-> TrimSpace(r.line), err |-> Nil, rs |-> r.rs]
      ELSE readPartBodyToDelimiterLine(r.rs, boundary, Append(body, r.line)))

RECURSIVE readPartBody(_, _, _)
readPartBody(rs, boundary, body) ==
    Bind(ReadString(rs), LAMBDA r :
      IF r.err # Nil THEN [Body |-> << >>, str |-> << >>, err |-> r.err, rs |-> r.rs]
      ELSE IF HasPrefix(r.line, boundary)
      THEN [Body |-> body, str |-> TrimSpace(r.line), err |-> Nil, rs |-> r.rs]
      ELSE readPartBody(r.rs, boundary, Append(body, r.line)))

(***************************************************************************)
(* readBody (275-297), its loop readParts (284-295), readPart (299-328)    *)
(* and part2Parts (330-340).                                               *)
(***************************************************************************)
RECURSIVE readBody(_, _, _)
RECURSIVE readParts(_, _, _, _)
RECURSIVE readPart(_, _, _)
RECURSIVE part2Parts(_, _)

part2PartsKeepsEntity(p, parent) == [ps |-> << p >>, err |-> Nil]

part2Parts(p, parent) ==
    IF ~PartIsMultipart(p) THEN [ps |-> << p >>, err |-> Nil]
    ELSE Bind(mimeParse(Get(p.Header, hdrContentType)), LAMBDA mt :
           IF mt.err # Nil THEN [ps |-> << >>, err |-> mt.err]
           ELSE Bind(readBody(p.Body, << "-", "-" >> \o Param(mt, multiBound), parent),
                     LAMBDA r : [ps |-> r.ps, err |-> r.err]))

readPart(rs, boundary, parent) ==
    Bind(readHeader(rs), LAMBDA h :
      IF h.err # Nil THEN [ps |-> << >>, err |-> h.err, rs |-> h.rs]
      ELSE Bind(readPartBody(h.rs, boundary, << >>), LAMBDA b :
        IF b.err # Nil THEN [ps |-> << >>, err |-> b.err, rs |-> b.rs]
        ELSE Bind(part2Parts([Header |-> h.hdr, Body |-> b.Body], parent), LAMBDA x :
          IF x.err # Nil THEN [ps |-> << >>, err |-> x.err, rs |-> b.rs]
          ELSE [ps |-> x.ps,
                err |-> IF HasSuffix(b.str, << "-", "-" >>) THEN EOF ELSE Nil,
                rs |-> b.rs])))

readParts(rs, boundary, parent, ps) ==
    Bind(readPart(rs, boundary, parent), LAMBDA x :
      IF x.err = Nil THEN readParts(x.rs, boundary, parent, ps \o x.ps)
      ELSE IF x.err = EOF THEN [ps |-> ps \o x.ps, err |-> Nil, rs |-> x.rs]
      ELSE [ps |-> << >>, err |-> x.err, rs |-> x.rs])

readBody(rs, boundary, parent) ==
    IF boundary = << "-", "-" >>
    THEN [ps |-> << >>, err |-> ErrEmptyBoundary, rs |-> rs]
    ELSE Bind(skipProlog(rs, boundary), LAMBDA p :
      IF p.err # Nil THEN [ps |-> << >>, err |-> p.err, rs |-> p.rs]
      ELSE Bind(readParts(p.rs, boundary, parent, << >>), LAMBDA l :
        IF l.err # Nil THEN [ps |-> << >>, err |-> l.err, rs |-> l.rs]
        ELSE [ps |-> l.ps, err |-> Nil, rs |-> skipEpilog(l.rs, parent)]))

(***************************************************************************)
(* ReadMessage, lines 51-84.  readFromLine is the loop of lines 53-65.     *)
(***************************************************************************)
RECURSIVE readFromLine(_)
readFromLine(rs) ==
    Bind(ReadString(rs), LAMBDA r :
      IF r.err = EOF THEN [err |-> EOF, rs |-> r.rs]
      ELSE Bind(TrimSpace(r.line), LAMBDA line :
        IF line = << >> THEN readFromLine(r.rs)
        ELSE IF ~HasPrefix(line, fromLinePrefix) THEN [err |-> ErrFromLine, rs |-> r.rs]
        ELSE [err |-> Nil, rs |-> r.rs]))

NoMessage == [Header |-> EmptyHeader, Parts |-> << >>]

ReadMessage(rs) ==
    Bind(readFromLine(rs), LAMBDA f :
      IF f.err # Nil THEN [m |-> NoMessage, err |-> f.err, rs |-> f.rs]
      ELSE Bind(readHeader(f.rs), LAMBDA h :
        IF h.err # Nil THEN [m |-> NoMessage, err |-> h.err, rs |-> h.rs]
        ELSE Bind([Header |-> h.hdr, Parts |-> << >>], LAMBDA m :
          IF ~IsMultipart(m)
          THEN Bind(readPlain(h.rs), LAMBDA plain :
                 [m |-> [m EXCEPT !.Parts = plain.Parts], err |-> plain.err, rs |-> plain.rs])
          ELSE Bind(mimeParse(Get(m.Header, hdrContentType)), LAMBDA mt :
            IF mt.err # Nil THEN [m |-> m, err |-> mt.err, rs |-> h.rs]
            ELSE Bind(readBody(h.rs, << "-", "-" >> \o Param(mt, multiBound), << >>),
                      LAMBDA b :
                        [m |-> [m EXCEPT !.Parts = IF b.err = Nil THEN b.ps ELSE << >>],
                         err |-> Nil, rs |-> b.rs])))))


(***************************************************************************)
(* The input streams.  A document is a sequence of message descriptions;   *)
(* RenderDoc writes it as an mbox stream, every line newline-terminated:   *)
(* the envelope line, the header lines, a blank line and the body, which   *)
(* for a multipart message follows the MIME boundary convention.  A part   *)
(* description is a leaf (header fields and body lines) or a nested        *)
(* multipart entity (its own boundary and leaf parts).                     *)
(***************************************************************************)
MaxMsgs == 2
MaxParts == 2
MaxFree == 3

SeqsUpTo(S, lo, hi) == UNION {[1..k -> S] : k \in lo..hi}

RECURSIVE Concat(_)
Concat(ss) == IF ss = << >> THEN << >> ELSE Head(ss) \o Concat(Tail(ss))

Digits == <<"1","2","3","4","5","6","7","8","9">>

Line(s) == s \o << "\n" >>

Field(kv) == Line(kv[1] \o << ":", " " >> \o kv[2])

RenderFields(hdr) == [i \in 1..Len(hdr) |-> Field(hdr[i])]

Delimiter(bnd) == << "-", "-" >> \o bnd

RenderLeaf(p) == RenderFields(p.hdr) \o << Line(<< >>) >> \o p.body

RenderEntity(bnd, parts, prolog, epilog) ==
    prolog
    \o Concat([i \in 1..Len(parts) |-> << Line(Delimiter(bnd)) >> \o parts[i]])
    \o << Line(Delimiter(bnd) \o << "-", "-" >>) >>
    \o epilog

MultipartType(sub, bnd) ==
    << hdrContentType, <<"m","u","l","t","i","p","a","r","t","/">> \o sub \o <<";"," ","b","o","u","n","d","a","r","y","=">> \o bnd >>

RenderPart(p) ==
    IF p.kind = "leaf" THEN RenderLeaf(p)
    ELSE RenderFields(<< MultipartType(<<"a","l","t","e","r","n","a","t","i","v","e">>, p.bnd) >>)
         \o << Line(<< >>) >>
         \o RenderEntity(p.bnd, [i \in 1..Len(p.sub) |-> RenderLeaf(p.sub[i])],
                         << >>, << >>)

MsgFields(i, msg) ==
    << << <<"S","u","b","j","e","c","t">>, << Digits[i] >> >> >>
    \o (IF msg.mime THEN << << hdrMimeVersion, <<"1",".","0">> >> >> ELSE << >>)
    \o msg.hdr

RenderMsg(i, msg) ==
    << <<"F","r","o","m"," ","a","\n">> >>
    \o RenderFields(MsgFields(i, msg))
    \o << Line(<< >>) >>
    \o (IF msg.kind = "plain" THEN msg.body
        ELSE RenderEntity(msg.bnd, [j \in 1..Len(msg.parts) |-> RenderPart(msg.parts[j])],
                          msg.prolog, msg.epilog))

RenderDoc(d) == Concat([i \in 1..Len(d) |-> RenderMsg(i, d[i])])

(***************************************************************************)
(* What a MIME reader has to find in a document: the header of a list of   *)
(* fields, the Part of a leaf, the leaves of a part list in document order.*)
(***************************************************************************)
RECURSIVE HeaderOf(_)
HeaderOf(hdr) ==
    IF hdr = << >> THEN EmptyHeader
    ELSE Add(HeaderOf(SubSeq(hdr, 1, Len(hdr) - 1)), hdr[Len(hdr)][1], hdr[Len(hdr)][2])

LeafOf(p) == [Header |-> HeaderOf(p.hdr), Body |-> p.body]

LeavesOf(parts) ==
    Concat([i \in 1..Len(parts) |->
              IF parts[i].kind = "leaf" THEN << LeafOf(parts[i]) >>
              ELSE [j \in 1..Len(parts[i].sub) |-> LeafOf(parts[i].sub[j])]])

(***************************************************************************)
(* The descriptions the documents are made of.                             *)
(***************************************************************************)
Leaf(hdr, body) ==
    [kind |-> "leaf", hdr |-> hdr, body |-> body, bnd |-> << >>, sub |-> << >>]

Nested(bnd, sub) ==
    [kind |-> "multi", hdr |-> << >>, body |-> << >>, bnd |-> bnd, sub |-> sub]

leafText == Leaf(<< << hdrContentType, <<"t","e","x","t","/","p","l","a","i","n">> >> >>, << <<"h","i","\n">> >>)
leafHTML == Leaf(<< << hdrContentType, <<"t","e","x","t","/","h","t","m","l">> >> >>, << <<"<","p",">","\n">>, <<"\n">> >>)
leafFile ==
    Leaf(<< << <<"C","o","n","t","e","n","t","-","D","i","s","p","o","s","i","t","i","o","n">>, <<"a","t","t","a","c","h","m","e","n","t",";"," ","f","i","l","e","n","a","m","e","=","f">> >> >>, << <<"Q","U","J","D","\n">> >>)
leafBare == Leaf(<< >>, << >>)

LeafParts == {leafText, leafFile, leafBare}
SubParts == {leafText, leafHTML}

OuterBounds == {<<"b">>, <<"c","-","-">>}
InnerBounds == {<<"i">>, <<"j","-","-">>}

Plain(mime, hdr, body) ==
    [kind |-> "plain", mime |-> mime, hdr |-> hdr, body |-> body,
     bnd |-> << >>, parts |-> << >>, prolog |-> << >>, epilog |-> << >>]

Multi(bnd, parts, prolog, epilog) ==
    [kind |-> "multi", mime |-> TRUE, hdr |-> << MultipartType(<<"m","i","x","e","d">>, bnd) >>,
     body |-> << >>, bnd |-> bnd, parts |-> parts, prolog |-> prolog, epilog |-> epilog]

PlainBodies == {<< >>, << <<"h","e","l","l","o","\n">> >>, << <<"h","e","l","l","o","\n">>, <<"\n">> >>}

PlainMsgs ==
    {Plain(FALSE, << >>, b) : b \in PlainBodies}
    \cup {Plain(TRUE, << << hdrContentType, <<"t","e","x","t","/","p","l","a","i","n">> >> >>, b) : b \in PlainBodies}
    \cup {Plain(TRUE, << >>, << <<"h","e","l","l","o","\n">> >>)}
    \cup {Plain(FALSE, << MultipartType(<<"m","i","x","e","d">>, <<"b">>) >>,
                << <<"-","-","b","\n">>, <<"\n">>, <<"h","i","\n">>, <<"-","-","b","-","-","\n">> >>)}

Frames ==
    {[prolog |-> << >>, epilog |-> << >>],
     [prolog |-> << >>, epilog |-> << <<"\n">> >>],
     [prolog |-> << <<"m","i","m","e","\n">> >>, epilog |-> << <<"o","k","\n">> >>]}

FlatMsgs(bounds) ==
    {Multi(b, ps, f.prolog, f.epilog) :
        b \in bounds, ps \in SeqsUpTo(LeafParts, 1, MaxParts), f \in Frames}

NestedMsgs(bounds, inner) ==
    {Multi(b, before \o << Nested(i, sub) >> \o after, << >>, << <<"\n">> >>) :
        b \in bounds, i \in inner,
        sub \in SeqsUpTo(SubParts, 1, MaxParts),
        before \in SeqsUpTo({leafText}, 0, 1),
        after \in SeqsUpTo({leafFile}, 0, MaxParts - 1)}

StreamMsgs ==
    {Plain(FALSE, << >>, << <<"h","e","l","l","o","\n">>, <<"\n">> >>),
     Plain(FALSE, << >>, << >>),
     Multi(<<"b">>, << leafText, leafFile >>, << >>, << <<"\n">> >>),
     Multi(<<"c","-","-">>, << leafText, leafFile >>, << >>, << >>),
     Multi(<<"b">>, << Nested(<<"i">>, << leafText, leafHTML >>), leafFile >>,
           << <<"m","i","m","e","\n">> >>, << <<"o","k","\n">> >>)}

Docs ==
    SeqsUpTo(StreamMsgs, 0, MaxMsgs)
    \cup {<< m >> : m \in PlainMsgs \cup FlatMsgs(OuterBounds)
                            \cup NestedMsgs(OuterBounds, InnerBounds)}

(***************************************************************************)
(* Damaged streams: a document cut after n lines ("cut"), cut with the     *)
(* last line left without its newline ("chop"), with line n replaced by a  *)
(* line of text ("junk"), with line n removed ("drop") or with the         *)
(* parameters of the Content-Type on line n removed ("nobnd").             *)
(***************************************************************************)
NoMutation == [k |-> "none", at |-> 0]

Chop(line) == SubSeq(line, 1, Len(line) - 1)

Damage(lines, mu) ==
    CASE mu.k = "cut" -> SubSeq(lines, 1, mu.at)
      [] mu.k = "chop" ->
            SubSeq(lines, 1, mu.at - 1)
            \o (IF Len(lines[mu.at]) > 1 THEN << Chop(lines[mu.at]) >> ELSE << >>)
      [] mu.k = "junk" -> [lines EXCEPT ![mu.at] = <<"f","o","o","\n">>]
      [] mu.k = "drop" -> SubSeq(lines, 1, mu.at - 1) \o SubSeq(lines, mu.at + 1, Len(lines))
      [] mu.k = "nobnd" ->
            [lines EXCEPT ![mu.at] = Line(SubSeq(@, 1, Index(@, ";") - 1))]
      [] OTHER -> lines

Mutations(lines) ==
    {[k |-> "cut", at |-> n] : n \in 0..(Len(lines) - 1)}
    \cup {[k |-> kk, at |-> n] : kk \in {"chop", "junk", "drop"}, n \in 1..Len(lines)}
    \cup {[k |-> "nobnd", at |-> n] : n \in {i \in 1..Len(lines) : Index(lines[i], ";") # 0
                                              /\ HasPrefix(lines[i], hdrContentType)}}

FreeLines ==
    {<<"F","r","o","m"," ","a","\n">>, <<" ","F","r","o","m"," ","a","\n">>, <<"\n">>, <<" ","x","\n">>, <<"S","u","b","j","e","c","t",":"," ","1","\n">>, <<"f","o","o","\n">>}

FreeStreams ==
    LET whole == SeqsUpTo(FreeLines, 0, MaxFree)
    IN  whole \cup {Damage(s, [k |-> "chop", at |-> Len(s)]) : s \in whole \ {<< >>}}

Mutated ==
    {<< m >> : m \in PlainMsgs \cup FlatMsgs({<<"b">>}) \cup NestedMsgs({<<"b">>}, {<<"i">>})}

(***************************************************************************)
(* The state: the stream given to the program, the number of its lines the *)
(* reader has consumed, and the results of the calls of ReadMessage made   *)
(* so far.  doc and mut tell how the stream was written.  A caller reads   *)
(* until the first error, as the loop of filterMessages does               *)
(* (src/cmd/mbox/main.go, 111-119).                                        *)
(*                                                                         *)
(* The library is also used without a stream: hdr is a Header a caller     *)
(* fills and ops the calls made on it so far; call is a call of one of     *)
(* the functions on values and ret what it returned.  The specification    *)
(* of the reader leaves these four alone, and the specifications of the    *)
(* Header and of the functions leave the reader alone.                     *)
(*                                                                         *)
(* The mbox command (src/cmd/mbox/main.go) reads the stream under its      *)
(* flags: seen is the map of withUniq and kept what keep answered for each *)
(* message read; producer and consumer are the positions of the goroutine  *)
(* of filterMessages and of the loop of main that ranges over queue, the   *)
(* unbuffered channel between them, and got is what the consumer received. *)
(* The other specifications leave the command idle.                        *)
(***************************************************************************)
VARIABLES input, doc, mut, pos, out, hdr, ops, call, ret,
          flags, seen, kept, producer, consumer, queue, got

command == << flags, seen, kept, producer, consumer, queue, got >>

vars == << input, doc, mut, pos, out, hdr, ops, call, ret, command >>

NoCall == [fn |-> "none"]

NoStream == input = << >> /\ doc = << >> /\ mut = NoMutation /\ pos = 0 /\ out = << >>

NoHeaderCalls == hdr = EmptyHeader /\ ops = << >>

NoFunctionCall == call = NoCall /\ ret = NoCall

NoFlags == [uniq |-> FALSE, noreply |-> FALSE, fd |-> 0, td |-> 0]

OpenQueue == [sending |-> << >>, closed |-> FALSE]

NoCommand ==
    /\ flags = NoFlags /\ seen = {} /\ kept = << >>
    /\ producer = "idle" /\ consumer = "idle" /\ queue = OpenQueue /\ got = << >>

rs == SubSeq(input, pos + 1, Len(input))

InitDoc ==
    \E d \in Docs :
        /\ doc = d
        /\ mut = NoMutation
        /\ input = RenderDoc(d)

InitDamaged ==
    \E d \in Mutated :
        LET lines == RenderDoc(d)
        IN  \E mu \in Mutations(lines) :
                /\ doc = d
                /\ mut = mu
                /\ input = Damage(lines, mu)

InitFree ==
    \E s \in FreeStreams :
        /\ doc = << >>
        /\ mut = [k |-> "free", at |-> 0]
        /\ input = s

(***************************************************************************)
(* Streams of one message whose multipart body holds a multipart part that *)
(* holds a multipart part: three boundaries, the leaves at depth three,    *)
(* with and without a second leaf inside and a leaf at depth one.          *)
(***************************************************************************)
DeepStreams ==
    {<< <<"F","r","o","m"," ","a","\n">>, <<"S","u","b","j","e","c","t",":"," ","1","\n">>, <<"M","I","M","E","-","V","e","r","s","i","o","n",":"," ","1",".","0","\n">>,
        <<"C","o","n","t","e","n","t","-","T","y","p","e",":"," ","m","u","l","t","i","p","a","r","t","/","m","i","x","e","d",";"," ","b","o","u","n","d","a","r","y","=","b","\n">>, <<"\n">>,
        <<"-","-","b","\n">>, <<"C","o","n","t","e","n","t","-","T","y","p","e",":"," ","m","u","l","t","i","p","a","r","t","/","a","l","t","e","r","n","a","t","i","v","e",";"," ","b","o","u","n","d","a","r","y","=","i","\n">>, <<"\n">>,
        <<"-","-","i","\n">>, <<"C","o","n","t","e","n","t","-","T","y","p","e",":"," ","m","u","l","t","i","p","a","r","t","/","r","e","l","a","t","e","d",";"," ","b","o","u","n","d","a","r","y","=","k","\n">>, <<"\n">>,
        <<"-","-","k","\n">>, <<"C","o","n","t","e","n","t","-","T","y","p","e",":"," ","t","e","x","t","/","h","t","m","l","\n">>, <<"\n">>, <<"<","p",">","\n">> >>
     \o inner \o << <<"-","-","k","-","-","\n">>, <<"-","-","i","-","-","\n">> >> \o outer \o << <<"-","-","b","-","-","\n">> >> :
        inner \in {<< >>, << <<"-","-","k","\n">>, <<"\n">>, <<"x","\n">> >>},
        outer \in {<< >>, << <<"-","-","b","\n">>, <<"C","o","n","t","e","n","t","-","T","y","p","e",":"," ","t","e","x","t","/","p","l","a","i","n","\n">>, <<"\n">>, <<"h","i","\n">> >>}}

InitDeep ==
    \E s \in DeepStreams :
        /\ doc = << >>
        /\ mut = [k |-> "deep", at |-> 0]
        /\ input = s

Init ==
    /\ InitDoc \/ InitDamaged \/ InitFree \/ InitDeep
    /\ pos = 0
    /\ out = << >>
    /\ NoHeaderCalls
    /\ NoFunctionCall
    /\ NoCommand

ReadWithoutAdvancing ==
    /\ Len(out) <= MaxMsgs
    /\ \A i \in 1..Len(out) : out[i].err = Nil
    /\ \E r \in {ReadMessage(rs)} : out' = Append(out, [m |-> r.m, err |-> r.err])
    /\ UNCHANGED << input, doc, mut, pos, hdr, ops, call, ret, command >>

Read ==
    /\ Len(out) <= MaxMsgs
    /\ \A i \in 1..Len(out) : out[i].err = Nil
    /\ \E r \in {ReadMessage(rs)} :
           /\ out' = Append(out, [m |-> r.m, err |-> r.err])
           /\ pos' = Len(input) - Len(r.rs)
    /\ UNCHANGED << input, doc, mut, hdr, ops, call, ret, command >>

Next == Read

Spec == Init /\ [][Next]_vars

(***************************************************************************)
(* Where the lines of a one-message document are: the blank line ending    *)
(* the top-level header, the first boundary line, and the first line of    *)
(* the header and of the body of part j.                                   *)
(***************************************************************************)
wellFormed == mut.k = "none"

FlatMultipart(msg) ==
    msg.kind = "multi" /\ \A j \in 1..Len(msg.parts) : msg.parts[j].kind = "leaf"

BlankLine(msg) == 1 + Len(MsgFields(1, msg)) + 1

FirstDelimiterLine(msg) == BlankLine(msg) + Len(msg.prolog) + 1

RECURSIVE PartStart(_, _)
PartStart(msg, j) ==
    IF j = 1 THEN FirstDelimiterLine(msg) + 1
    ELSE PartStart(msg, j - 1) + Len(RenderPart(msg.parts[j - 1])) + 1

BodyStart(msg, j) == PartStart(msg, j) + Len(msg.parts[j].hdr) + 1

(***************************************************************************)
(* C1.  Every Message that ReadMessage returns with a nil error has at     *)
(* least one Part.                                                         *)
(***************************************************************************)
C1_EveryMessageHasAPart ==
    \A i \in 1..Len(out) : out[i].err = Nil => Len(out[i].m.Parts) >= 1

(***************************************************************************)
(* C2.  On the stream of a document of k messages, call i <= k returns     *)
(* message i (its header) with a nil error and call k+1 returns io.EOF.    *)
(***************************************************************************)
C2_MessagesInOrderThenEOF ==
    wellFormed =>
        \A i \in 1..Len(out) :
            IF i <= Len(doc)
            THEN out[i].err = Nil /\ out[i].m.Header = HeaderOf(MsgFields(i, doc[i]))
            ELSE out[i].err = EOF

(***************************************************************************)
(* C3.  A multipart message of N parts, none of them multipart, is         *)
(* returned with exactly these N Parts, header and raw body lines, in      *)
(* order.                                                                  *)
(***************************************************************************)
C3_FlatPartsInOrder ==
    wellFormed =>
        \A i \in 1..Len(out) :
            (i <= Len(doc) /\ FlatMultipart(doc[i])) =>
                out[i].err = Nil /\ out[i].m.Parts = LeavesOf(doc[i].parts)

(***************************************************************************)
(* C4.  A part that is itself multipart is replaced, at its position, by   *)
(* its own leaf parts: the Parts of a message holding a nested multipart   *)
(* part are the leaves of the document in document order.                  *)
(***************************************************************************)
HasNestedPart(msg) ==
    msg.kind = "multi" /\ \E j \in 1..Len(msg.parts) : msg.parts[j].kind = "multi"

C4_NestedPartsFlattened ==
    wellFormed =>
        \A i \in 1..Len(out) :
            (i <= Len(doc) /\ HasNestedPart(doc[i])) =>
                out[i].err = Nil /\ out[i].m.Parts = LeavesOf(doc[i].parts)

(***************************************************************************)
(* C5.  A well-formed single-part message (no MIME-Version header, or a    *)
(* Content-Type that is not multipart) is returned with a nil error, is    *)
(* not multipart and has exactly one Part.                                 *)
(***************************************************************************)
C5_PlainMessageHasOnePart ==
    wellFormed =>
        \A i \in 1..Len(out) :
            (i <= Len(doc) /\ doc[i].kind = "plain") =>
                /\ out[i].err = Nil
                /\ ~IsMultipart(out[i].m)
                /\ Len(out[i].m.Parts) = 1

C5_Witness ==
    /\ wellFormed
    /\ Len(doc) = 2 /\ doc[1].kind = "multi" /\ doc[2].kind = "plain"
    /\ doc[2].body # << >>
    /\ Len(out) = 2
    /\ out[2].err = Nil
    /\ out[2].m.Parts = << [Header |-> EmptyHeader, Body |-> doc[2].body] >>

(***************************************************************************)
(* C6.  A multipart message whose Content-Type has no boundary parameter,  *)
(* or whose stream ends before the first boundary line, makes ReadMessage  *)
(* return a non-nil error.                                                 *)
(***************************************************************************)
NoBoundaryParameter == mut.k = "nobnd" /\ mut.at = BlankLine(doc[1]) - 1

EndsInProlog ==
    mut.k = "cut" /\ mut.at >= BlankLine(doc[1]) /\ mut.at < FirstDelimiterLine(doc[1])

C6_StructuralErrorPropagated ==
    (Len(doc) = 1 /\ doc[1].kind = "multi" /\ (NoBoundaryParameter \/ EndsInProlog)) =>
        (Len(out) >= 1 => out[1].err # Nil)

(***************************************************************************)
(* C7.  A top-level header block with a non-continuation line that has no  *)
(* colon makes ReadMessage return an error that is not io.EOF, and a       *)
(* Message without Parts.  NoColonAt(n): line n of the stream is such a    *)
(* line, after the envelope line and n-2 well-formed header lines.         *)
(***************************************************************************)
NoColonAt(n) ==
    /\ n >= 2 /\ n <= Len(input)
    /\ input[1] = <<"F","r","o","m"," ","a","\n">>
    /\ \A j \in 2..(n - 1) : input[j] = <<"S","u","b","j","e","c","t",":"," ","1","\n">>
    /\ TrimSpace(input[n]) = <<"f","o","o">>

C7_TopHeaderErrorNoParts ==
    (\E n \in 2..Len(input) : NoColonAt(n)) =>
        (Len(out) >= 1 => out[1].err \notin {Nil, EOF} /\ out[1].m.Parts = << >>)

(***************************************************************************)
(* C8.  A no-colon line in the header block of a part, of the top-level    *)
(* body or of a nested one, makes ReadMessage return a non-nil error.      *)
(***************************************************************************)
JunkInPartHeader ==
    /\ Len(doc) = 1 /\ doc[1].kind = "multi"
    /\ mut.k = "junk"
    /\ \/ /\ doc[1].parts[1].kind = "leaf"
          /\ doc[1].parts[1].hdr # << >>
          /\ mut.at = PartStart(doc[1], 1)
       \/ /\ doc[1].parts[1].kind = "multi"
          /\ mut.at \in {PartStart(doc[1], 1), PartStart(doc[1], 1) + 3}

C8_PartHeaderErrorPropagated ==
    JunkInPartHeader => (Len(out) >= 1 => out[1].err # Nil)

(***************************************************************************)
(* C9.  Leading blank lines are skipped; a first non-blank line that does  *)
(* not start with "From " gives the framing error, also when it is the     *)
(* last line and has no newline; a stream without a non-blank line gives   *)
(* io.EOF.                                                                 *)
(***************************************************************************)
NonBlank == {k \in 1..Len(input) : TrimSpace(input[k]) # << >>}

FirstNonBlank == CHOOSE k \in NonBlank : \A j \in NonBlank : k <= j

C9_FramingErrorOrEOF ==
    Len(out) >= 1 =>
        IF NonBlank = {} THEN out[1].err = EOF
        ELSE ~HasPrefix(TrimSpace(input[FirstNonBlank]), fromLinePrefix) =>
                out[1].err = ErrFromLine

(***************************************************************************)
(* C10.  When the stream ends in the body of part j, the Parts are the     *)
(* parts before j followed by part j with the body lines read so far.      *)
(***************************************************************************)
EndsInBodyOf(j) ==
    /\ mut.k = "cut"
    /\ mut.at >= BodyStart(doc[1], j) - 1
    /\ mut.at <= BodyStart(doc[1], j) - 1 + Len(doc[1].parts[j].body)

C10_PartialPartKept ==
    (Len(doc) = 1 /\ FlatMultipart(doc[1])) =>
        \A j \in 1..Len(doc[1].parts) :
            (EndsInBodyOf(j) /\ Len(out) >= 1) =>
                out[1].m.Parts =
                    LeavesOf(SubSeq(doc[1].parts, 1, j - 1))
                    \o << [Header |-> HeaderOf(doc[1].parts[j].hdr),
                           Body |-> SubSeq(doc[1].parts[j].body, 1,
                                           mut.at - BodyStart(doc[1], j) + 1)] >>

(***************************************************************************)
(* The extent of the divergences above.  Each of these holds: the formulas *)
(* of C2, C3, C4, C7 and C9 fail only where the stream ends with a short   *)
(* epilogue (skipEpilog stops at the io.EOF of Peek), where a boundary     *)
(* delimiter itself ends with "--" (readPart takes it for the closing      *)
(* one), or where the last line has no newline (ReadString returns it      *)
(* with io.EOF and the line is dropped).                                   *)
(***************************************************************************)
EndsWithDashes(bnd) == HasSuffix(bnd, << "-", "-" >>)

Terminated(line) == line[Len(line)] = "\n"

OnlyShortEpilogBreaksOrder ==
    (wellFormed /\ (Len(doc) > 0 => doc[Len(doc)].epilog # << <<"o","k","\n">> >>)) =>
        \A i \in 1..Len(out) :
            IF i <= Len(doc)
            THEN out[i].err = Nil /\ out[i].m.Header = HeaderOf(MsgFields(i, doc[i]))
            ELSE out[i].err = EOF

OnlyDashedDelimiterBreaksParts ==
    wellFormed =>
        \A i \in 1..Len(out) :
            (/\ i <= Len(doc)
             /\ doc[i].kind = "multi"
             /\ ~EndsWithDashes(doc[i].bnd)
             /\ \A j \in 1..Len(doc[i].parts) : ~EndsWithDashes(doc[i].parts[j].bnd)) =>
                out[i].err = Nil /\ out[i].m.Parts = LeavesOf(doc[i].parts)

OnlyUnterminatedLineEscapesHeaderError ==
    (\E n \in 2..Len(input) : NoColonAt(n) /\ Terminated(input[n])) =>
        (Len(out) >= 1 => out[1].err \notin {Nil, EOF} /\ out[1].m.Parts = << >>)

OnlyUnterminatedLineEscapesFraming ==
    (Len(out) >= 1 /\ NonBlank # {}) =>
        ((~HasPrefix(TrimSpace(input[FirstNonBlank]), fromLinePrefix)
            /\ Terminated(input[FirstNonBlank])) =>
                out[1].err = ErrFromLine)

(***************************************************************************)
(* C11.  A message without a MIME-Version header is not multipart, also    *)
(* when its Content-Type is multipart with a boundary: its whole body,     *)
(* the boundary lines included, is the Body of its one Part.  The message  *)
(* is one written without the field, or a MIME message of a document       *)
(* whose MIME-Version line (line 3 of the stream) was removed.              *)
(***************************************************************************)
MimeVersionDropped ==
    Len(doc) = 1 /\ doc[1].mime /\ mut.k = "drop" /\ mut.at = 3

C11_NoMimeVersionNeverMultipart ==
    /\ wellFormed =>
          \A i \in 1..Len(out) :
              (i <= Len(doc) /\ ~doc[i].mime) =>
                  /\ out[i].err = Nil
                  /\ ~IsMultipart(out[i].m)
                  /\ out[i].m.Parts = << [Header |-> EmptyHeader, Body |-> doc[i].body] >>
    /\ (MimeVersionDropped /\ Len(out) >= 1) =>
          /\ out[1].err = Nil
          /\ ~IsMultipart(out[1].m)
          /\ out[1].m.Parts =
                << [Header |-> EmptyHeader,
                    Body |-> SubSeq(input, BlankLine(doc[1]), Len(input))] >>

C11_Witness ==
    /\ MimeVersionDropped
    /\ doc[1].kind = "multi"
    /\ Len(out) = 1
    /\ out[1].err = Nil
    /\ Get(out[1].m.Header, hdrContentType) = <<"m","u","l","t","i","p","a","r","t","/","m","i","x","e","d",";"," ","b","o","u","n","d","a","r","y","=","b">>
    /\ Len(out[1].m.Parts) = 1
    /\ out[1].m.Parts[1].Body[1] = <<"-","-","b","\n">>

(***************************************************************************)
(* C16.  A call that returns a Message with a nil error consumes exactly   *)
(* one message: after calls that all returned a nil error, the lines       *)
(* consumed hold at most as many lines beginning with "From " as calls     *)
(* were made (the envelope line of each message; an envelope line may be   *)
(* indented), and the rest of the stream is                                *)
(* empty, or blank lines only, or begins with "From ".                     *)
(***************************************************************************)
FromLines(n) == {k \in 1..n : HasPrefix(input[k], fromLinePrefix)}

NothingLeft == \A k \in (pos + 1)..Len(input) : TrimSpace(input[k]) = << >>

AtEnvelope == pos < Len(input) /\ HasPrefix(input[pos + 1], fromLinePrefix)

C16_OneMessagePerCall ==
    (Len(out) >= 1 /\ out[Len(out)].err = Nil) =>
        /\ Cardinality(FromLines(pos)) <= Len(out)
        /\ NothingLeft \/ AtEnvelope

(***************************************************************************)
(* The extent of the divergence of C16: the formula holds after every      *)
(* call but one that read a multipart message and returned it without      *)
(* Parts (the error of readBody that ReadMessage does not return) or       *)
(* stopped in an epilogue that ends the stream, and but one on a stream    *)
(* whose last line has no newline (the line is dropped by readHeader).     *)
(***************************************************************************)
OnlyAbsorbedErrorOrShortEpilogLeavesRest ==
    (/\ Len(out) >= 1
     /\ out[Len(out)].err = Nil
     /\ Terminated(input[Len(input)])
     /\ ~(IsMultipart(out[Len(out)].m) /\ out[Len(out)].m.Parts = << >>)
     /\ ~(IsMultipart(out[Len(out)].m) /\ Cardinality(FromLines(Len(input))) = Len(out))) =>
        /\ Cardinality(FromLines(pos)) <= Len(out)
        /\ NothingLeft \/ AtEnvelope

(***************************************************************************)
(* C17.  The multipart engine on the body of a well-formed message whose   *)
(* parts are not multipart.  The first part starts after the first line    *)
(* that, trimmed, equals the delimiter; a part ends before the next line   *)
(* that starts with the delimiter; the part is the last one read exactly   *)
(* when that line, trimmed, ends with "--", and otherwise another part is  *)
(* read.  The Parts are the parts so delimited, in order.                  *)
(***************************************************************************)
Least(S) == CHOOSE k \in S : \A j \in S : k <= j

Greatest(S) == CHOOSE k \in S : \A j \in S : k >= j

DelimiterOf == Delimiter(doc[1].bnd)

PrologEnd ==
    Least({k \in (BlankLine(doc[1]) + 1)..Len(input) : TrimSpace(input[k]) = DelimiterOf})

BoundaryLines == {k \in (PrologEnd + 1)..Len(input) : HasPrefix(input[k], DelimiterOf)}

FinalLine ==
    Least({k \in BoundaryLines : HasSuffix(TrimSpace(input[k]), << "-", "-" >>)})

PartEnds == {k \in BoundaryLines : k <= FinalLine}

PartEnd(j) == CHOOSE e \in PartEnds : Cardinality({k \in PartEnds : k <= e}) = j

PartBegin(j) == IF j = 1 THEN PrologEnd + 1 ELSE PartEnd(j - 1) + 1

DelimitedPart(j) ==
    LET h == readHeader(SubSeq(input, PartBegin(j), PartEnd(j) - 1))
    IN  [Header |-> h.hdr, Body |-> h.rs]

C17_PartsAreDelimited ==
    (wellFormed /\ Len(doc) = 1 /\ FlatMultipart(doc[1]) /\ Len(out) >= 1) =>
        /\ Len(out[1].m.Parts) = Cardinality(PartEnds)
        /\ \A j \in 1..Len(out[1].m.Parts) : out[1].m.Parts[j] = DelimitedPart(j)

C17_Witness ==
    /\ wellFormed /\ Len(doc) = 1 /\ FlatMultipart(doc[1])
    /\ doc[1].prolog = << <<"m","i","m","e","\n">> >>
    /\ doc[1].bnd = <<"b">>
    /\ doc[1].parts = << leafText, leafFile >>
    /\ Len(out) = 1
    /\ PrologEnd = BlankLine(doc[1]) + 2
    /\ Cardinality(BoundaryLines) = 2
    /\ out[1].m.Parts = << LeafOf(leafText), LeafOf(leafFile) >>

C17_WitnessDashedBoundary ==
    /\ wellFormed /\ Len(doc) = 1 /\ FlatMultipart(doc[1])
    /\ doc[1].bnd = <<"c","-","-">>
    /\ doc[1].parts = << leafText, leafFile >>
    /\ Len(out) = 1
    /\ Cardinality(BoundaryLines) = 2
    /\ Cardinality(PartEnds) = 1
    /\ out[1].m.Parts = << LeafOf(leafText) >>

(***************************************************************************)
(* C18.  The Part of a non-multipart message has an empty Header, and its  *)
(* Body is the lines of the stream after the blank line that ends the      *)
(* header block, up to and without the next line that begins with "From "  *)
(* or up to the end of the stream, a last line without newline included,   *)
(* each line as it stands in the stream.  Checked on the first message of  *)
(* every stream; a header block that ends with the stream leaves no body.  *)
(***************************************************************************)
HeaderEnds == {k \in (FirstNonBlank + 1)..Len(input) : TrimSpace(input[k]) = << >>}

PlainBodyStart == IF HeaderEnds = {} THEN Len(input) + 1 ELSE Least(HeaderEnds) + 1

NextEnvelopes == {k \in PlainBodyStart..Len(input) : HasPrefix(input[k], fromLinePrefix)}

PlainBodyEnd == IF NextEnvelopes = {} THEN Len(input) ELSE Least(NextEnvelopes) - 1

C18_PlainBodyIsTheRawLines ==
    (Len(out) >= 1 /\ out[1].err = Nil /\ ~IsMultipart(out[1].m)) =>
        out[1].m.Parts =
            << [Header |-> EmptyHeader, Body |-> SubSeq(input, PlainBodyStart, PlainBodyEnd)] >>

C18_Witness ==
    /\ input = << <<"F","r","o","m"," ","a","\n">>, <<"S","u","b","j","e","c","t",":"," ","1","\n">>, <<"\n">>, <<"h","e","l","l","o","\n">>, <<"\n">>,
                  <<"F","r","o","m"," ","a","\n">>, <<"S","u","b","j","e","c","t",":"," ","2","\n">>, <<"\n">> >>
    /\ Len(out) = 1
    /\ out[1].err = Nil
    /\ out[1].m.Parts = << [Header |-> EmptyHeader, Body |-> << <<"h","e","l","l","o","\n">>, <<"\n">> >>] >>
    /\ pos = 5

C18_WitnessNoNewline ==
    /\ input = << <<"F","r","o","m"," ","a","\n">>, <<"\n">>, <<" ","F","r","o","m"," ","a">> >>
    /\ Len(out) = 1
    /\ out[1].m.Parts = << [Header |-> EmptyHeader, Body |-> << <<" ","F","r","o","m"," ","a">> >>] >>

(***************************************************************************)
(* The Header used on its own: a caller adds fields to an empty Header.    *)
(* The names are header tokens in several letter cases, the values carry   *)
(* surrounding white space or are empty.                                   *)
(***************************************************************************)
MaxOps == 3

HeaderKeys == {<<"t","o">>, <<"T","o">>, <<"i","n","-","r","e","p","l","y","-","t","o">>, <<"I","n","-","R","e","p","l","y","-","T","o">>}

HeaderValues == {<<"a">>, <<" ","b","\t">>, <<>>}

UnusedKey == <<"c","c">>

InitHeader == NoStream /\ NoHeaderCalls /\ NoFunctionCall /\ NoCommand

HeaderAdd ==
    /\ Len(ops) < MaxOps
    /\ \E k \in HeaderKeys, v \in HeaderValues :
          /\ hdr' = Add(hdr, k, v)
          /\ ops' = Append(ops, [op |-> "Add", k |-> k, v |-> v])
    /\ UNCHANGED << input, doc, mut, pos, out, call, ret, command >>

NextHeader == HeaderAdd

SpecHeader == InitHeader /\ [][NextHeader]_vars

(***************************************************************************)
(* C12.  Get(k) is the last value added for k, trimmed; Has(k) holds as    *)
(* soon as a value was added for k; the values of k are kept in the order  *)
(* of the calls; Get of a key never added is the empty string.  A value    *)
(* is added for k by an Add whose key is k in any letter case.             *)
(***************************************************************************)
SameField(k1, k2) == ToLower(k1) = ToLower(k2)

AddedFor(k) ==
    LET calls == SelectSeq(ops, LAMBDA o : o.op = "Add" /\ SameField(o.k, k))
    IN  [i \in 1..Len(calls) |-> TrimSpace(calls[i].v)]

C12_GetReturnsLastAdded ==
    /\ \A k \in HeaderKeys :
          /\ Has(hdr, k) <=> AddedFor(k) # << >>
          /\ Get(hdr, k) = IF AddedFor(k) = << >> THEN << >>
                           ELSE AddedFor(k)[Len(AddedFor(k))]
          /\ AddedFor(k) # << >> => hdr[CanonicalMIMEHeaderKey(k)] = AddedFor(k)
    /\ ~Has(hdr, UnusedKey) /\ Get(hdr, UnusedKey) = << >>

C12_Witness ==
    /\ Len(ops) = 2
    /\ ops[1] = [op |-> "Add", k |-> <<"t","o">>, v |-> <<"a">>]
    /\ ops[2] = [op |-> "Add", k |-> <<"t","o">>, v |-> <<" ","b","\t">>]
    /\ Get(hdr, <<"t","o">>) = <<"b">>
    /\ Has(hdr, <<"t","o">>)

(***************************************************************************)
(* C15.  IsReply holds exactly when an In-Reply-To field was added to the  *)
(* Header of the message, under any letter case of its name and whatever   *)
(* its value, the empty one included.                                      *)
(***************************************************************************)
MessageOf(h) == [Header |-> h, Parts |-> << >>]

C15_IsReplyIffInReplyTo ==
    IsReply(MessageOf(hdr)) <=>
        \E i \in 1..Len(ops) : ops[i].op = "Add" /\ SameField(ops[i].k, <<"I","n","-","R","e","p","l","y","-","T","o">>)

C15_Witness ==
    /\ ops = << [op |-> "Add", k |-> <<"t","o">>, v |-> <<"a">>],
                [op |-> "Add", k |-> <<"i","n","-","r","e","p","l","y","-","t","o">>, v |-> <<>>] >>
    /\ IsReply(MessageOf(hdr))
    /\ Get(hdr, <<"I","n","-","R","e","p","l","y","-","T","o">>) = << >>

(***************************************************************************)
(* C26.  No Part of a Message returned by ReadMessage is itself multipart, *)
(* at any nesting depth of the input.                                      *)
(***************************************************************************)
C26_PartsAreLeaves ==
    \A i \in 1..Len(out) : \A j \in 1..Len(out[i].m.Parts) :
        ~PartIsMultipart(out[i].m.Parts[j])

C26_Witness ==
    /\ mut.k = "deep"
    /\ Len(out) = 1
    /\ out[1].err = Nil
    /\ Len(out[1].m.Parts) = 3
    /\ Get(out[1].m.Parts[1].Header, hdrContentType) = <<"t","e","x","t","/","h","t","m","l">>
    /\ out[1].m.Parts[1].Body = << <<"<","p",">","\n">> >>
    /\ out[1].m.Parts[2] = [Header |-> EmptyHeader, Body |-> << <<"x","\n">> >>]
    /\ Get(out[1].m.Parts[3].Header, hdrContentType) = <<"t","e","x","t","/","p","l","a","i","n">>

C26_WitnessNested ==
    /\ wellFormed
    /\ Len(doc) = 1 /\ doc[1].kind = "multi"
    /\ \E j \in 1..Len(doc[1].parts) : doc[1].parts[j].kind = "multi"
    /\ Len(out) = 1
    /\ out[1].err = Nil
    /\ Len(out[1].m.Parts) >= 3

(***************************************************************************)
(* C25.  ReadMessage terminates on every finite stream.  Every loop of the *)
(* reader goes round only after a read that returned without error, and    *)
(* such a read leaves a strictly shorter stream: ReadString for the loops  *)
(* of the envelope line, the header, the prolog, the part body and the     *)
(* plain body, the line read after a successful Peek for the epilog,       *)
(* readPart for the loop of readBody, and ReadMessage for the loop of the  *)
(* caller.  The body in which part2Parts descends has fewer lines than the *)
(* stream readPart took it from.  The line loops and the call are tried   *)
(* at every position of the stream, readPart after every line that begins *)
(* with "--", with every such line of the stream as boundary.             *)
(***************************************************************************)
Suffixes(s) == {SubSeq(s, k, Len(s)) : k \in 1..(Len(s) + 1)}

BoundariesIn(s) ==
    {TrimSpace(s[i]) : i \in {j \in 1..Len(s) : HasPrefix(s[j], << "-", "-" >>)}}

AfterDelimiter(s) ==
    {SubSeq(s, k + 1, Len(s)) : k \in {j \in 1..Len(s) : HasPrefix(s[j], << "-", "-" >>)}}

Shorter(rest, s) ==
    Len(rest) < Len(s) /\ rest = SubSeq(s, Len(s) - Len(rest) + 1, Len(s))

LineLoopsAdvance(s) ==
    /\ ReadString(s).err = Nil => Shorter(ReadString(s).rs, s)
    /\ Peek(s, Len(fromLinePrefix)).err = Nil => Shorter(ReadString(s).rs, s)
    /\ (s # << >> /\ readContinuation(s, << >>).rs # s) => Shorter(readContinuation(s, << >>).rs, s)

PartLoopAdvances(s, boundary) ==
    /\ Bind(readPart(s, boundary, << >>), LAMBDA x : x.err = Nil => Shorter(x.rs, s))
    /\ Bind(readHeader(s), LAMBDA h :
         h.err = Nil =>
            Bind(readPartBody(h.rs, boundary, << >>), LAMBDA b :
               b.err = Nil => Len(b.Body) < Len(s)))

CallAdvances(s) == Bind(ReadMessage(s), LAMBDA r : r.err = Nil => Shorter(r.rs, s))

C25_ReadMessageTerminates ==
    /\ [](pos = 0 =>
            \A s \in Suffixes(input) :
                /\ LineLoopsAdvance(s)
                /\ CallAdvances(s)
                /\ s \in AfterDelimiter(input) =>
                      \A b \in BoundariesIn(input) : PartLoopAdvances(s, b))
    /\ [][ /\ pos <= pos' /\ pos' <= Len(input)
           /\ out'[Len(out')].err = Nil => pos < pos' ]_vars

C25_Witness ==
    /\ mut.k = "deep"
    /\ Len(out) = 2
    /\ out[1].err = Nil
    /\ out[2].err = EOF
    /\ pos = Len(input)

(***************************************************************************)
(* The Header rewritten in memory: a caller adds, sets and deletes fields  *)
(* of an empty Header.  The names are a header token in two letter cases   *)
(* and the name that readHeader takes from the line "Subject : x", which   *)
(* ends with a space, in two letter cases.  One value has a parameter.     *)
(***************************************************************************)
MaxStoreOps == 3

StoreKeys == {<<"t","o">>, <<"T","O">>, <<"s","u","b","j","e","c","t"," ">>, <<"S","u","b","j","e","c","t"," ">>}

StoreValues == {<<"a">>, <<" ","b",";"," ","c","=","d","\t">>}

StoreAdd ==
    /\ Len(ops) < MaxStoreOps
    /\ \E k \in StoreKeys, v \in StoreValues :
          /\ hdr' = Add(hdr, k, v)
          /\ ops' = Append(ops, [op |-> "Add", k |-> k, v |-> v])
    /\ UNCHANGED << input, doc, mut, pos, out, call, ret, command >>

StoreSet ==
    /\ Len(ops) < MaxStoreOps
    /\ \E k \in StoreKeys, v \in StoreValues :
          /\ hdr' = Set(hdr, k, v)
          /\ ops' = Append(ops, [op |-> "Set", k |-> k, v |-> v])
    /\ UNCHANGED << input, doc, mut, pos, out, call, ret, command >>

StoreDel ==
    /\ Len(ops) < MaxStoreOps
    /\ \E k \in StoreKeys :
          /\ hdr' = Del(hdr, k)
          /\ ops' = Append(ops, [op |-> "Del", k |-> k, v |-> << >>])
    /\ UNCHANGED << input, doc, mut, pos, out, call, ret, command >>

NextStore == StoreAdd \/ StoreSet \/ StoreDel

SpecStore == InitHeader /\ [][NextStore]_vars

(***************************************************************************)
(* C21.  Every stored key is in canonical form (the first letter and every *)
(* letter after a hyphen in upper case, every other letter in lower case), *)
(* and Has, Get, Split, Add, Set and Del called with two keys that differ  *)
(* only in letter case give the same result and the same Header.           *)
(***************************************************************************)
IsCanonicalForm(k) ==
    \A i \in 1..Len(k) :
        IF i = 1 \/ k[i - 1] = "-" THEN k[i] \notin DOMAIN upperOf
        ELSE k[i] \notin DOMAIN lowerOf

SameEntry(k1, k2) ==
    /\ Has(hdr, k1) = Has(hdr, k2)
    /\ Get(hdr, k1) = Get(hdr, k2)
    /\ HeaderSplit(hdr, k1) = HeaderSplit(hdr, k2)
    /\ Del(hdr, k1) = Del(hdr, k2)
    /\ \A v \in StoreValues :
          Add(hdr, k1, v) = Add(hdr, k2, v) /\ Set(hdr, k1, v) = Set(hdr, k2, v)

C21_KeysAreCaseInsensitive ==
    /\ \A k \in DOMAIN hdr : IsCanonicalForm(k)
    /\ \A k1, k2 \in StoreKeys : SameField(k1, k2) => SameEntry(k1, k2)

(***************************************************************************)
(* The extent of the divergence of C21: the formula holds for the names    *)
(* that are header tokens.                                                 *)
(***************************************************************************)
IsToken(k) == \A i \in 1..Len(k) : validHeaderFieldByte(k[i])

OnlyNonTokenKeysKeepTheirCase ==
    /\ \A k \in DOMAIN hdr : IsToken(k) => IsCanonicalForm(k)
    /\ \A k1, k2 \in StoreKeys :
          (SameField(k1, k2) /\ IsToken(k1) /\ IsToken(k2)) => SameEntry(k1, k2)

(***************************************************************************)
(* C22.  A Set(k, v) leaves exactly one value in the entry of k, the       *)
(* trimmed v; after a Del(k), Has(k) is false and Get(k) is the empty      *)
(* string; both leave the entry of every other key as it was.              *)
(***************************************************************************)
OthersUnchanged(h1, h2, ck) ==
    /\ DOMAIN h1 \ {ck} = DOMAIN h2 \ {ck}
    /\ \A x \in DOMAIN h1 \ {ck} : h2[x] = h1[x]

C22_SetReplacesDelRemoves ==
    [][ /\ ops'[Len(ops')].op = "Set" =>
              /\ hdr'[CanonicalMIMEHeaderKey(ops'[Len(ops')].k)] =
                     << TrimSpace(ops'[Len(ops')].v) >>
              /\ Get(hdr', ops'[Len(ops')].k) = TrimSpace(ops'[Len(ops')].v)
              /\ OthersUnchanged(hdr, hdr', CanonicalMIMEHeaderKey(ops'[Len(ops')].k))
        /\ ops'[Len(ops')].op = "Del" =>
              /\ ~Has(hdr', ops'[Len(ops')].k)
              /\ Get(hdr', ops'[Len(ops')].k) = << >>
              /\ OthersUnchanged(hdr, hdr', CanonicalMIMEHeaderKey(ops'[Len(ops')].k))
      ]_vars

C22_Witness ==
    /\ Len(ops) = 3
    /\ ops[1] = [op |-> "Add", k |-> <<"t","o">>, v |-> <<"a">>]
    /\ ops[2] = [op |-> "Add", k |-> <<"T","O">>, v |-> <<"a">>]
    /\ ops[3] = [op |-> "Set", k |-> <<"t","o">>, v |-> <<" ","b",";"," ","c","=","d","\t">>]
    /\ hdr = (<<"T","o">> :> << <<"b",";"," ","c","=","d">> >>)

C22_WitnessDel ==
    /\ Len(ops) = 3
    /\ ops[1].op = "Add" /\ ops[1].k = <<"t","o">>
    /\ ops[2].op = "Add" /\ ops[2].k = <<"s","u","b","j","e","c","t"," ">>
    /\ ops[3] = [op |-> "Del", k |-> <<"T","O">>, v |-> << >>]
    /\ DOMAIN hdr = {<<"s","u","b","j","e","c","t"," ">>}

(***************************************************************************)
(* The functions of the library called on values.  One action per          *)
(* function: it draws the argument and records the call and its result.    *)
(*                                                                         *)
(* readHeader is called on header blocks whose field values are folded:    *)
(* a field is a name and the segments of its value, the first on the line  *)
(* of the name and every other one on a continuation line that begins with *)
(* one space.  The block ends with a blank line followed by a body line,   *)
(* or with the stream.                                                     *)
(***************************************************************************)
MaxFold == 2

Words == {<<"a">>, <<"b",":"," ","c">>, <<"d"," ">>}

FoldedField == [name : {<<"S","u","b","j","e","c","t">>}, segs : SeqsUpTo(Words, 1, MaxFold + 1)]

NextField == [name : {<<"T","o">>}, segs : {<< <<"a">> >>, << <<"b",":"," ","c">>, <<"a">> >>}]

FoldedFields == {<< f >> : f \in FoldedField} \cup {<< f, g >> : f \in FoldedField, g \in NextField}

BlockEnds == {<< >>, << <<"\n">>, <<"b","o","d","y","\n">> >>}

Folded(f) ==
    << Line(f.name \o << ":", " " >> \o f.segs[1]) >>
    \o [i \in 1..(Len(f.segs) - 1) |-> Line(<< " " >> \o f.segs[i + 1])]

RECURSIVE JoinWithSpace(_)
JoinWithSpace(segs) ==
    IF Len(segs) = 1 THEN segs[1]
    ELSE JoinWithSpace(SubSeq(segs, 1, Len(segs) - 1)) \o << " " >> \o segs[Len(segs)]

Unfolded(f) == << Line(f.name \o << ":", " " >> \o JoinWithSpace(f.segs)) >>

FoldedBlock(fields) == Concat([i \in 1..Len(fields) |-> Folded(fields[i])])

UnfoldedBlock(fields) == Concat([i \in 1..Len(fields) |-> Unfolded(fields[i])])

InitCalls == NoStream /\ NoHeaderCalls /\ NoFunctionCall /\ NoCommand

CallReadHeader ==
    /\ call = NoCall
    /\ \E fields \in FoldedFields, end \in BlockEnds :
          /\ call' = [fn |-> "readHeader", fields |-> fields, end |-> end,
                      arg |-> FoldedBlock(fields) \o end]
          /\ ret' = readHeader(FoldedBlock(fields) \o end)
    /\ UNCHANGED << input, doc, mut, pos, out, hdr, ops, command >>

(***************************************************************************)
(* C13.  As claimed: readHeader gives for a folded block the Header it     *)
(* gives for the block in which every fold (the line break and the one     *)
(* space after it) is replaced by one space.                               *)
(***************************************************************************)
C13_FoldedEqualsUnfolded ==
    call.fn = "readHeader" =>
        ret.hdr = readHeader(UnfoldedBlock(call.fields) \o call.end).hdr

(***************************************************************************)
(* C13, amended.  The value stored for a folded field is its segments,     *)
(* each without the white space around it, joined by single spaces; it is  *)
(* the value of the unfolded form when no segment but the last ends with   *)
(* white space.  The line after the last continuation line is read as a    *)
(* header line: the Header holds every field of the block and the reader   *)
(* is left after the blank line.                                           *)
(***************************************************************************)
Trimmed(segs) == [i \in 1..Len(segs) |-> TrimSpace(segs[i])]

NoSpaceBeforeFold(f) ==
    \A i \in 1..(Len(f.segs) - 1) : f.segs[i] = TrimSpace(f.segs[i])

C13_FoldedJoinsTrimmedSegments ==
    call.fn = "readHeader" =>
        /\ ret.err = Nil
        /\ ret.hdr = HeaderOf([i \in 1..Len(call.fields) |->
                                  << call.fields[i].name,
                                     JoinWithSpace(Trimmed(call.fields[i].segs)) >>])
        /\ (\A i \in 1..Len(call.fields) : NoSpaceBeforeFold(call.fields[i])) =>
                ret.hdr = readHeader(UnfoldedBlock(call.fields) \o call.end).hdr
        /\ ret.rs = IF call.end = << >> THEN << >> ELSE << <<"b","o","d","y","\n">> >>

C13_Witness ==
    /\ call.fn = "readHeader"
    /\ call.arg = << <<"S","u","b","j","e","c","t",":"," ","d"," ","\n">>, <<" ","b",":"," ","c","\n">>, <<" ","a","\n">>, <<"T","o",":"," ","b",":"," ","c","\n">>, <<" ","a","\n">>,
                     <<"\n">>, <<"b","o","d","y","\n">> >>
    /\ ret.err = Nil
    /\ Get(ret.hdr, <<"S","u","b","j","e","c","t">>) = <<"d"," ","b",":"," ","c"," ","a">>
    /\ Get(ret.hdr, <<"T","o">>) = <<"b",":"," ","c"," ","a">>

(***************************************************************************)
(* Filename and Files are called on Parts whose header was read from the   *)
(* fields written here: a Content-Disposition with a main value, possibly  *)
(* a size parameter and a filename parameter (bare or quoted; one of the   *)
(* file names holds an "=", as an encoded-word does), and a                *)
(* Content-Type with or without a name parameter; either field may be      *)
(* missing (the empty main value, the empty Content-Type).                 *)
(***************************************************************************)
Dispositions ==
    [main : {<< >>, <<"a","t","t","a","c","h","m","e","n","t">>, <<"i","n","l","i","n","e">>, <<"f","o","r","m","-","d","a","t","a">>},
     size : BOOLEAN,
     file : {<< >>, <<"f",".","t","x","t">>, <<"a","=","b">>},
     quoted : BOOLEAN]

ContentTypes ==
    {[text |-> << >>, name |-> << >>],
     [text |-> <<"t","e","x","t","/","p","l","a","i","n">>, name |-> << >>],
     [text |-> <<"i","m","a","g","e","/","p","n","g",";"," ","n","a","m","e","=","\"","l","o","g","o",".","p","n","g","\"">>, name |-> <<"l","o","g","o",".","p","n","g">>]}

RenderDisposition(d) ==
    d.main
    \o (IF d.size THEN <<";"," ","s","i","z","e","=","1">> ELSE << >>)
    \o (IF d.file = << >> THEN << >>
        ELSE <<";"," ","f","i","l","e","n","a","m","e","=">>
             \o (IF d.quoted THEN << "\"" >> \o d.file \o << "\"" >> ELSE d.file))

PartFields(d, ct) ==
    (IF d.main = << >> THEN << >> ELSE << << hdrContentDispo, RenderDisposition(d) >> >>)
    \o (IF ct.text = << >> THEN << >> ELSE << << hdrContentType, ct.text >> >>)

PartWith(d, ct) == [Header |-> HeaderOf(PartFields(d, ct)), Body |-> << <<"Q","U","J","D","\n">> >>]

PartDescriptions ==
    {[d |-> d, ct |-> ct] : d \in {x \in Dispositions : x.main # << >> \/ (~x.size /\ x.file = << >>)},
                            ct \in ContentTypes}

FilesParts ==
    {[d |-> [main |-> <<"a","t","t","a","c","h","m","e","n","t">>, size |-> FALSE, file |-> <<"f",".","t","x","t">>, quoted |-> TRUE],
      ct |-> [text |-> << >>, name |-> << >>]],
     [d |-> [main |-> <<"i","n","l","i","n","e">>, size |-> FALSE, file |-> << >>, quoted |-> FALSE],
      ct |-> [text |-> <<"i","m","a","g","e","/","p","n","g",";"," ","n","a","m","e","=","\"","l","o","g","o",".","p","n","g","\"">>, name |-> <<"l","o","g","o",".","p","n","g">>]],
     [d |-> [main |-> << >>, size |-> FALSE, file |-> << >>, quoted |-> FALSE],
      ct |-> [text |-> <<"t","e","x","t","/","p","l","a","i","n">>, name |-> << >>]]}

CallFilename ==
    /\ call = NoCall
    /\ \E x \in PartDescriptions :
          /\ call' = [fn |-> "Filename", d |-> x.d, ct |-> x.ct, arg |-> PartWith(x.d, x.ct)]
          /\ ret' = Filename(PartWith(x.d, x.ct))
    /\ UNCHANGED << input, doc, mut, pos, out, hdr, ops, command >>

CallFiles ==
    /\ call = NoCall
    /\ \E xs \in SeqsUpTo(FilesParts, 0, MaxParts) :
          /\ call' = [fn |-> "Files", parts |-> xs,
                      arg |-> [Header |-> EmptyHeader,
                               Parts |-> [i \in 1..Len(xs) |-> PartWith(xs[i].d, xs[i].ct)]]]
          /\ ret' = Files([Header |-> EmptyHeader,
                           Parts |-> [i \in 1..Len(xs) |-> PartWith(xs[i].d, xs[i].ct)]])
    /\ UNCHANGED << input, doc, mut, pos, out, hdr, ops, command >>

(***************************************************************************)
(* C14.  Filename is the filename parameter of Content-Disposition when    *)
(* its main value is attachment or inline, the name parameter of           *)
(* Content-Type when the filename parameter is absent, and the empty       *)
(* string for another or a missing disposition; Files is the sequence of   *)
(* the non-empty file names of the Parts, in Part order.                   *)
(***************************************************************************)
ExpectedFilename(d, ct) ==
    IF d.main \in {<<"a","t","t","a","c","h","m","e","n","t">>, <<"i","n","l","i","n","e">>}
    THEN IF d.file # << >> THEN d.file ELSE ct.name
    ELSE << >>

C14_FilenameAndFiles ==
    /\ call.fn = "Filename" => ret = Returned(ExpectedFilename(call.d, call.ct))
    /\ call.fn = "Files" =>
          ret = Returned(SelectSeq([i \in 1..Len(call.parts) |->
                                      ExpectedFilename(call.parts[i].d, call.parts[i].ct)],
                                   LAMBDA f : f # << >>))

(***************************************************************************)
(* The extent of the divergence of C14: the formula holds for every file   *)
(* name without "=" (parseValueField splits a segment at every "=" and     *)
(* keeps what stands between the first and the second).                    *)
(***************************************************************************)
PlainFile(x) == Index(x.d.file, "=") = 0

OnlyEqualsSignBreaksFilename ==
    /\ (call.fn = "Filename" /\ PlainFile(call)) =>
          ret = Returned(ExpectedFilename(call.d, call.ct))
    /\ (call.fn = "Files" /\ \A i \in 1..Len(call.parts) : PlainFile(call.parts[i])) =>
          ret = Returned(SelectSeq([i \in 1..Len(call.parts) |->
                                      ExpectedFilename(call.parts[i].d, call.parts[i].ct)],
                                   LAMBDA f : f # << >>))

(***************************************************************************)
(* From, To and Cc are called on messages whose From, To or Cc field is    *)
(* one address or a comma-separated list of addresses: a bare address, an  *)
(* address in angle brackets with or without a name before it, empty       *)
(* brackets, a bracket that is not closed, and text after the bracket.     *)
(***************************************************************************)
MaxAddrs == 2

Addresses ==
    {<<"a","@","b">>, <<"<","a","@","b",">">>, <<"x"," ","<","a","@","b",">">>, <<" ","x"," ","<","a","@","b",">"," ","y">>, <<"<",">">>, <<"x"," ","<","a","@","b">>, <<>>}

RECURSIVE JoinWithComma(_)
JoinWithComma(list) ==
    IF Len(list) = 1 THEN list[1]
    ELSE JoinWithComma(SubSeq(list, 1, Len(list) - 1)) \o << "," >> \o list[Len(list)]

MessageWith(k, v) == MessageOf(HeaderOf(<< << k, v >> >>))

CallFrom ==
    /\ call = NoCall
    /\ \E a \in Addresses :
          /\ call' = [fn |-> "From", list |-> << a >>, arg |-> MessageWith(<<"F","r","o","m">>, a)]
          /\ ret' = From(MessageWith(<<"F","r","o","m">>, a))
    /\ UNCHANGED << input, doc, mut, pos, out, hdr, ops, command >>

CallTo ==
    /\ call = NoCall
    /\ \E list \in SeqsUpTo(Addresses, 1, MaxAddrs) :
          /\ call' = [fn |-> "To", list |-> list,
                      arg |-> MessageWith(<<"T","o">>, JoinWithComma(list))]
          /\ ret' = To(MessageWith(<<"T","o">>, JoinWithComma(list)))
    /\ UNCHANGED << input, doc, mut, pos, out, hdr, ops, command >>

CallCc ==
    /\ call = NoCall
    /\ \E list \in SeqsUpTo(Addresses, 1, MaxAddrs) :
          /\ call' = [fn |-> "Cc", list |-> list,
                      arg |-> MessageWith(<<"C","c">>, JoinWithComma(list))]
          /\ ret' = Cc(MessageWith(<<"C","c">>, JoinWithComma(list)))
    /\ UNCHANGED << input, doc, mut, pos, out, hdr, ops, command >>

(***************************************************************************)
(* C19.  The address of a value is the text strictly between its first     *)
(* "<" and the next ">" (the empty string for "<>"), and the value itself  *)
(* when it has no "<" or no ">" after the "<"; To and Cc give the address  *)
(* of every comma-separated segment, in order.  The header stores a value  *)
(* trimmed, so the segments are those of the trimmed value.                *)
(***************************************************************************)
Opening(s) == Least({i \in 1..Len(s) : s[i] = "<"})

Closing(s) == Least({j \in (Opening(s) + 1)..Len(s) : s[j] = ">"})

Bracketed(s) ==
    \E i \in 1..Len(s) : s[i] = "<" /\ \E j \in (Opening(s) + 1)..Len(s) : s[j] = ">"

AddressOf(s) == IF Bracketed(s) THEN SubSeq(s, Opening(s) + 1, Closing(s) - 1) ELSE s

SegmentsOf(list) == Split(TrimSpace(JoinWithComma(list)), ",")

C19_AddressExtraction ==
    /\ call.fn = "From" => ret = AddressOf(TrimSpace(call.list[1]))
    /\ call.fn \in {"To", "Cc"} =>
          ret = [i \in 1..Len(SegmentsOf(call.list)) |-> AddressOf(SegmentsOf(call.list)[i])]

(***************************************************************************)
(* The extent of the divergence of C19: the formula holds for the values   *)
(* whose segments have no "<" or have a "<" closed by a ">" that does not  *)
(* follow it at once.                                                      *)
(***************************************************************************)
ClosedNonEmpty(s) ==
    (\E i \in 1..Len(s) : s[i] = "<") => (Bracketed(s) /\ Closing(s) > Opening(s) + 1)

OnlyEmptyOrOpenBracketBreaksAddress ==
    /\ (call.fn = "From" /\ ClosedNonEmpty(call.list[1])) =>
          ret = AddressOf(TrimSpace(call.list[1]))
    /\ (call.fn \in {"To", "Cc"} /\ \A i \in 1..Len(call.list) : ClosedNonEmpty(call.list[i])) =>
          ret = [i \in 1..Len(SegmentsOf(call.list)) |-> AddressOf(SegmentsOf(call.list)[i])]

(***************************************************************************)
(* Bytes is called on Parts with no Content-Transfer-Encoding field and    *)
(* with one of several values, in three letter cases for base64, and with  *)
(* bodies that are valid base64 on one and two lines, with and without     *)
(* padding, invalid from the first character, invalid after a valid        *)
(* quantum, cut inside a quantum, shorter than a quantum, with data after  *)
(* the padding, plain text, quoted-printable text, and empty.              *)
(***************************************************************************)
Encodings ==
    {<< >>, <<"7","b","i","t">>, <<"8","b","i","t">>, <<"b","i","n","a","r","y">>, <<"b","a","s","e","6","4">>, <<"B","A","S","E","6","4">>, <<"B","a","s","e","6","4">>,
     <<"q","u","o","t","e","d","-","p","r","i","n","t","a","b","l","e">>}

Bodies ==
    {<< >>,
     << <<"Q","U","J","D","\n">> >>,
     << <<"Q","U","J","D","\n">>, <<"R","U","Y","=","\n">> >>,
     << <<"Q","U","J","D","\r","\n">>, <<"R","Q","=","=">> >>,
     << <<"!","!","!","!","\n">> >>,
     << <<"Q","U","J","D","\n">>, <<"R","!","Y","=","\n">> >>,
     << <<"Q","U","J","D","R","\n">> >>,
     << <<"Q","U","\n">> >>,
     << <<"Q","Q","=","=","Q","U","J","D","\n">> >>,
     << <<"h","e","l","l","o","\n">> >>,
     << <<"a","=","3","D","b"," ","=","\n">>, <<"c"," ","\n">> >>}

EncodedPart(enc, body) ==
    [Header |-> IF enc = << >> THEN EmptyHeader
                ELSE HeaderOf(<< << <<"C","o","n","t","e","n","t","-","T","r","a","n","s","f","e","r","-","E","n","c","o","d","i","n","g">>, enc >> >>),
     Body |-> body]

CallBytes ==
    /\ call = NoCall
    /\ \E enc \in Encodings, body \in Bodies :
          /\ call' = [fn |-> "Bytes", enc |-> enc, body |-> body, arg |-> EncodedPart(enc, body)]
          /\ ret' = Bytes(EncodedPart(enc, body))
    /\ UNCHANGED << input, doc, mut, pos, out, hdr, ops, command >>

(***************************************************************************)
(* C20.  Bytes of a Part whose Content-Transfer-Encoding is base64, in any *)
(* letter case, and whose body is not valid base64 is empty: no bytes      *)
(* decoded before the point of failure are returned; for an encoding other *)
(* than base64 and quoted-printable, or none, Bytes is the body unchanged. *)
(* A body is valid base64 when its characters, line ends apart, are whole  *)
(* groups of four characters of the base64 alphabet, the last group ending *)
(* with at most two "=".                                                   *)
(***************************************************************************)
TokenStream(body) == SelectSeq(Concat(body), LAMBDA c : c \notin {"\r", "\n"})

InAlphabet(c) == \E i \in 1..Len(base64Alphabet) : base64Alphabet[i] = c

ValidBase64(t) ==
    /\ Len(t) % 4 = 0
    /\ \E pad \in 0..2 :
          /\ pad < Len(t) \/ pad = 0
          /\ \A i \in 1..Len(t) : IF i > Len(t) - pad THEN t[i] = "=" ELSE InAlphabet(t[i])

SameLetters(a, b) ==
    Len(a) = Len(b) /\ \A i \in 1..Len(a) : ToLowerByte(a[i]) = ToLowerByte(b[i])

C20_InvalidBase64IsEmpty ==
    call.fn = "Bytes" =>
        /\ (SameLetters(call.enc, <<"b","a","s","e","6","4">>) /\ ~ValidBase64(TokenStream(call.body))) =>
              ret = << >>
        /\ (~SameLetters(call.enc, <<"b","a","s","e","6","4">>) /\ ~SameLetters(call.enc, <<"q","u","o","t","e","d","-","p","r","i","n","t","a","b","l","e">>)) =>
              ret = call.body

(***************************************************************************)
(* The extent of the divergence of C20: the formula holds for the invalid  *)
(* bodies that do not begin with a valid group of four characters, and     *)
(* for every body under the other encodings.                               *)
(***************************************************************************)
BeginsWithValidGroup(t) == Len(t) >= 4 /\ ValidBase64(SubSeq(t, 1, 4))

OnlyDecodedPrefixIsReturned ==
    call.fn = "Bytes" =>
        /\ ( /\ SameLetters(call.enc, <<"b","a","s","e","6","4">>)
             /\ ~ValidBase64(TokenStream(call.body))
             /\ ~BeginsWithValidGroup(TokenStream(call.body)) ) => ret = << >>
        /\ (~SameLetters(call.enc, <<"b","a","s","e","6","4">>) /\ ~SameLetters(call.enc, <<"q","u","o","t","e","d","-","p","r","i","n","t","a","b","l","e">>)) =>
              ret = call.body

(***************************************************************************)
(* Valid base64 and quoted-printable bodies decode to their content.       *)
(***************************************************************************)
DecodesContent ==
    /\ (call.fn = "Bytes" /\ SameLetters(call.enc, <<"b","a","s","e","6","4">>)) =>
          /\ call.body = << <<"Q","U","J","D","\n">> >> => ret = <<"A","B","C">>
          /\ call.body = << <<"Q","U","J","D","\n">>, <<"R","U","Y","=","\n">> >> => ret = <<"A","B","C","E","F">>
          /\ call.body = << <<"Q","U","J","D","\r","\n">>, <<"R","Q","=","=">> >> => ret = <<"A","B","C","E">>
    /\ (call.fn = "Bytes" /\ call.enc = <<"q","u","o","t","e","d","-","p","r","i","n","t","a","b","l","e">>) =>
          (call.body = << <<"a","=","3","D","b"," ","=","\n">>, <<"c"," ","\n">> >> => ret = <<"a","=","b"," ","c","\n">>)

(***************************************************************************)
(* withInterval, src/cmd/mbox/main.go lines 377-388, the filter that       *)
(* parseArgs builds from the flags -starts and -ends (lines 287-288 and    *)
(* 293); a flag that is not given leaves the zero Time.  It is called with *)
(* every pair of flags and on messages whose Date field is one of the      *)
(* texts above, a text that is not a date, or absent.                      *)
(***************************************************************************)
withInterval(fd, td, m) ==
    IF IsZero(fd) /\ IsZero(td) THEN TRUE
    ELSE IF ~IsZero(fd) /\ After(fd, Date(m)) THEN FALSE
    ELSE ~IsZero(td) /\ After(td, Date(m))

FlagDates == {0, 24, 48, 72}

DateFields == DOMAIN timeParse \cup {<<"y","e","s","t","e","r","d","a","y">>, << >>}

Dated(d) == IF d = << >> THEN MessageOf(EmptyHeader) ELSE MessageWith(<<"D","a","t","e">>, d)

CallWithInterval ==
    /\ call = NoCall
    /\ \E fd \in FlagDates, td \in FlagDates, d \in DateFields :
          /\ call' = [fn |-> "withInterval", fd |-> fd, td |-> td, date |-> d, arg |-> Dated(d)]
          /\ ret' = withInterval(fd, td, Dated(d))
    /\ UNCHANGED << input, doc, mut, pos, out, hdr, ops, command >>

(***************************************************************************)
(* C23.  The date-range filter keeps a message if and only if no start     *)
(* date is given or the message date is not before the start date, and no  *)
(* end date is given or the message date is before the end date.  The      *)
(* date of a message is the instant of its Date field, the zero Time when  *)
(* the field is absent or is not a date.                                   *)
(***************************************************************************)
InstantOf(d) ==
    IF d \in {<<"W","e","d",","," ","1"," ","J","a","n"," ","2","0","2","0"," ","0","0",":","0","0",":","0","0"," ","+","0","0","0","0">>} THEN 24
    ELSE IF d \in {<<"T","h","u",","," ","2"," ","J","a","n"," ","2","0","2","0"," ","0","0",":","0","0",":","0","0"," ","+","0","0","0","0">>, <<"T","h","u",","," ","2"," ","J","a","n"," ","2","0","2","0"," ","0","1",":","0","0",":","0","0"," ","+","0","1","0","0"," ","(","C","E","T",")">>}
    THEN 48
    ELSE IF d \in {<<"F","r","i",","," ","3"," ","J","a","n"," ","2","0","2","0"," ","0","0",":","0","0",":","0","0"," ","+","0","0","0","0">>} THEN 72
    ELSE 0

C23_DateRangeFilter ==
    call.fn = "withInterval" =>
        (ret <=> /\ (call.fd = 0 \/ ~(InstantOf(call.date) < call.fd))
                 /\ (call.td = 0 \/ InstantOf(call.date) < call.td))

(***************************************************************************)
(* The extent of the divergence of C23: the formula holds whenever an end  *)
(* date is given or no start date is given.                                *)
(***************************************************************************)
OnlyStartWithoutEndDropsMessages ==
    (call.fn = "withInterval" /\ (call.td # 0 \/ call.fd = 0)) =>
        (ret <=> /\ (call.fd = 0 \/ ~(InstantOf(call.date) < call.fd))
                 /\ (call.td = 0 \/ InstantOf(call.date) < call.td))

StartWithoutEndKeepsNothing ==
    (call.fn = "withInterval" /\ call.td = 0 /\ call.fd # 0) => ~ret

(***************************************************************************)
(* Header.Split, Part.Filename, Part.IsAttachment and Part.IsInline are    *)
(* called on Parts with one Content-Disposition field: a bare value, a     *)
(* value with parameters, a value that ends with ";", and values with a    *)
(* segment that has no "=".                                                *)
(***************************************************************************)
DispositionValues ==
    {<<"a","t","t","a","c","h","m","e","n","t">>, <<"i","n","l","i","n","e",";"," ","f","i","l","e","n","a","m","e","=","f">>, <<"a","t","t","a","c","h","m","e","n","t",";"," ","f","i","l","e","n","a","m","e","=","\"","f","\"",";"," ","s","i","z","e","=","1">>,
     <<"a","t","t","a","c","h","m","e","n","t",";">>, <<"a","t","t","a","c","h","m","e","n","t",";"," ","f","i","l","e","n","a","m","e","=","f",";">>, <<"i","n","l","i","n","e",";"," ","d","r","a","f","t">>,
     <<"f","o","r","m","-","d","a","t","a",";"," ","n","a","m","e","=","x",";"," ","f","i","n","a","l">>}

Disposed(v) == [Header |-> HeaderOf(<< << hdrContentDispo, v >> >>), Body |-> << >>]

CallSplit ==
    /\ call = NoCall
    /\ \E v \in DispositionValues :
          /\ call' = [fn |-> "Split", value |-> v, arg |-> Disposed(v)]
          /\ ret' = HeaderSplit(Disposed(v).Header, hdrContentDispo)
    /\ UNCHANGED << input, doc, mut, pos, out, hdr, ops, command >>

CallFilenameOfValue ==
    /\ call = NoCall
    /\ \E v \in DispositionValues :
          /\ call' = [fn |-> "FilenameOfValue", value |-> v, arg |-> Disposed(v)]
          /\ ret' = Filename(Disposed(v))
    /\ UNCHANGED << input, doc, mut, pos, out, hdr, ops, command >>

CallIsAttachment ==
    /\ call = NoCall
    /\ \E v \in DispositionValues :
          /\ call' = [fn |-> "IsAttachment", value |-> v, arg |-> Disposed(v)]
          /\ ret' = IsAttachment(Disposed(v))
    /\ UNCHANGED << input, doc, mut, pos, out, hdr, ops, command >>

CallIsInline ==
    /\ call = NoCall
    /\ \E v \in DispositionValues :
          /\ call' = [fn |-> "IsInline", value |-> v, arg |-> Disposed(v)]
          /\ ret' = IsInline(Disposed(v))
    /\ UNCHANGED << input, doc, mut, pos, out, hdr, ops, command >>

(***************************************************************************)
(* C27.  Header.Split, Part.Filename, Part.IsAttachment and Part.IsInline  *)
(* return a result for every Content-Disposition value and never abort,    *)
(* also for a value that ends with ";" or has a segment without "=".       *)
(***************************************************************************)
OnDisposition == call.fn \in {"Split", "FilenameOfValue", "IsAttachment", "IsInline"}

C27_ParameterSplittingNeverAborts == OnDisposition => ~ret.panic

(***************************************************************************)
(* The extent of the divergence of C27: the calls return for the values    *)
(* whose segments after the first ";" all hold an "=", and abort for every *)
(* other value.                                                            *)
(***************************************************************************)
EverySegmentHasEquals(v) ==
    \A i \in 2..Len(Split(v, ";")) : \E j \in 1..Len(Split(v, ";")[i]) : Split(v, ";")[i][j] = "="

OnlySegmentWithoutEqualsAborts ==
    OnDisposition => (ret.panic <=> ~EverySegmentHasEquals(call.value))

NextCalls == CallReadHeader \/ CallFilename \/ CallFiles \/ CallFrom \/ CallTo \/ CallCc
               \/ CallBytes \/ CallWithInterval
               \/ CallSplit \/ CallFilenameOfValue \/ CallIsAttachment \/ CallIsInline

SpecCalls == InitCalls /\ [][NextCalls]_vars

(***************************************************************************)
(* The mbox command in the form that reads in main: parseArgs, lines       *)
(* 275-299 of src/cmd/mbox/main.go, builds keep from the flags as the      *)
(* filters withUniq, withInterval, withFrom, withTo, withSubject, withReply*)
(* and withAttachments in that order, and keepMessage, lines 301-313,      *)
(* answers false at the first filter that does.  The map seen of withUniq  *)
(* lives as long as the filter and is the variable seen.  The command runs *)
(* under -uniq and -no-reply, each given or not; -from, -to, -subject and  *)
(* -with-attachment are not given, and their filters then accept every     *)
(* message (lines 347-351, 356-358, 371-374 and 390-393).                  *)
(***************************************************************************)
MaxMails == 3

withUniqForgets(uniq, sn, m) ==
    [ok |-> ~uniq \/ Get(m.Header, <<"M","e","s","s","a","g","e","-","I","d">>) \notin sn, seen |-> sn]

withUniq(uniq, sn, m) ==
    IF ~uniq THEN [ok |-> TRUE, seen |-> sn]
    ELSE IF Get(m.Header, <<"M","e","s","s","a","g","e","-","I","d">>) \in sn THEN [ok |-> FALSE, seen |-> sn]
    ELSE [ok |-> TRUE, seen |-> sn \cup {Get(m.Header, <<"M","e","s","s","a","g","e","-","I","d">>)}]

withReply(noreply, m) == ~(noreply /\ IsReply(m))

keepMessage(fl, sn, m) ==
    Bind(withUniq(fl.uniq, sn, m), LAMBDA u :
        [uniq |-> u.ok,
         seen |-> u.seen,
         ok |-> u.ok /\ withInterval(fl.fd, fl.td, m) /\ withReply(fl.noreply, m)])

(***************************************************************************)
(* The streams of the command: up to MaxMails plain messages, each without *)
(* a Message-Id field or with one of two ids under one of the spellings of *)
(* the field name, and a reply or not.                                     *)
(***************************************************************************)
MailIds ==
    {<< >>,
     << << <<"M","e","s","s","a","g","e","-","I","d">>, <<"<","a",">">> >> >>,
     << << <<"m","e","s","s","a","g","e","-","i","d">>, <<"<","a",">">> >> >>,
     << << <<"M","e","s","s","a","g","e","-","I","D">>, <<"<","b",">">> >> >>}

MailReplies == {<< >>, << << hdrInReplyTo, <<"<","z",">">> >> >>}

Mails == {Plain(FALSE, id \o re, << <<"h","e","l","l","o","\n">> >>) : id \in MailIds, re \in MailReplies}

MainFlags == {[uniq |-> u, noreply |-> n, fd |-> 0, td |-> 0] : u \in BOOLEAN, n \in BOOLEAN}

IdleQueue == producer = "idle" /\ consumer = "idle" /\ queue = OpenQueue /\ got = << >>

InitMain ==
    /\ \E d \in SeqsUpTo(Mails, 0, MaxMails) :
           /\ doc = d
           /\ mut = NoMutation
           /\ input = RenderDoc(d)
    /\ pos = 0
    /\ out = << >>
    /\ NoHeaderCalls
    /\ NoFunctionCall
    /\ flags \in MainFlags
    /\ seen = {}
    /\ kept = << >>
    /\ IdleQueue

(***************************************************************************)
(* One turn of the loop of main, lines 251-273: the loop ends at the first *)
(* error of ReadMessage; a message is given to keep, and printed when keep *)
(* accepts it.  kept holds, for each message read, what withUniq and what  *)
(* keep answered.                                                          *)
(***************************************************************************)
Main ==
    /\ \A i \in 1..Len(out) : out[i].err = Nil
    /\ \E r \in {ReadMessage(rs)} :
           /\ out' = Append(out, [m |-> r.m, err |-> r.err])
           /\ pos' = Len(input) - Len(r.rs)
           /\ IF r.err # Nil THEN UNCHANGED << seen, kept >>
              ELSE \E k \in {keepMessage(flags, seen, r.m)} :
                       /\ seen' = k.seen
                       /\ kept' = Append(kept, [uniq |-> k.uniq, ok |-> k.ok])
    /\ UNCHANGED << input, doc, mut, hdr, ops, call, ret, flags, producer, consumer, queue, got >>

NextMain == Main

SpecMain == InitMain /\ [][NextMain]_vars

(***************************************************************************)
(* C24.  With -uniq the uniqueness filter accepts a message if and only if *)
(* no earlier message of the stream had the same Message-Id value, the     *)
(* empty one for a message without the field, so that no two messages the  *)
(* command prints have the same Message-Id; without -uniq it accepts every *)
(* message.                                                                *)
(***************************************************************************)
IdOf(i) == Get(out[i].m.Header, <<"M","e","s","s","a","g","e","-","I","d">>)

C24_UniqAcceptsFirstOfEachId ==
    /\ Len(kept) <= Len(out)
    /\ \A i \in 1..Len(kept) :
           kept[i].uniq <=> (~flags.uniq \/ \A j \in 1..(i - 1) : IdOf(j) # IdOf(i))
    /\ flags.uniq =>
           \A i, j \in 1..Len(kept) : i < j /\ kept[i].ok /\ kept[j].ok => IdOf(i) # IdOf(j)

(***************************************************************************)
(* Under -uniq and -no-reply: a reply with the id <a>, which the reply     *)
(* filter drops, then a message with the same id under another spelling of *)
(* the field name, which the uniqueness filter drops although the first    *)
(* one was not printed, then a message without a Message-Id, printed.      *)
(***************************************************************************)
C24_Witness ==
    /\ flags.uniq /\ flags.noreply
    /\ doc = << Plain(FALSE, << << <<"M","e","s","s","a","g","e","-","I","d">>, <<"<","a",">">> >>, << hdrInReplyTo, <<"<","z",">">> >> >>,
                      << <<"h","e","l","l","o","\n">> >>),
                Plain(FALSE, << << <<"m","e","s","s","a","g","e","-","i","d">>, <<"<","a",">">> >> >>, << <<"h","e","l","l","o","\n">> >>),
                Plain(FALSE, << >>, << <<"h","e","l","l","o","\n">> >>) >>
    /\ kept = << [uniq |-> TRUE, ok |-> FALSE],
                 [uniq |-> FALSE, ok |-> FALSE],
                 [uniq |-> TRUE, ok |-> TRUE] >>
    /\ seen = {<<"<","a",">">>, << >>}

(***************************************************************************)
(* Without -uniq three messages with one id are all printed.               *)
(***************************************************************************)
C24_WitnessDisabled ==
    /\ ~flags.uniq /\ ~flags.noreply
    /\ Len(kept) = 3
    /\ \A i \in 1..3 : IdOf(i) = <<"<","a",">">> /\ kept[i].ok

(***************************************************************************)
(* The mbox command in the form that reads in a goroutine: filterMessages, *)
(* lines 103-122 of src/cmd/mbox/main.go, and the loop of main that ranges *)
(* over the channel it returns, lines 67-74.  keep is what parseArgs,      *)
(* lines 77-101, builds; -no-reply is given or not and the other flags are *)
(* not, so that filterReply, lines 153-157, is the one filter that can     *)
(* reject (the others return true at once, lines 136, 146, 150, 161 and    *)
(* 166), and keep is never nil.                                            *)
(*                                                                         *)
(* producer is where the goroutine stands: "read" before a ReadMessage,    *)
(* "send" blocked in queue <- m, "close" after the break with the deferred *)
(* close to run, "done" after it.  consumer is where main stands: "recv"   *)
(* at the head of the range loop, "print" in its body, "done" after the    *)
(* loop.  The channel is unbuffered: queue.sending is the message the      *)
(* producer offers, and a send completes only together with a receive.     *)
(***************************************************************************)
filterReply(reply, m) == ~reply \/ IsReply(m)

keepFilter(fl, m) == withInterval(fl.fd, fl.td, m) /\ filterReply(fl.noreply, m)

FilterFlags == {[uniq |-> FALSE, noreply |-> n, fd |-> 0, td |-> 0] : n \in BOOLEAN}

(***************************************************************************)
(* The streams: up to MaxMails plain messages, replies or not, whole or    *)
(* with the Subject line of one message replaced by a line without a       *)
(* colon, at which ReadMessage returns an error that is not io.EOF.        *)
(***************************************************************************)
FilterMails == {Plain(FALSE, re, << <<"h","e","l","l","o","\n">> >>) : re \in MailReplies}

SubjectLines(lines) == {n \in 1..Len(lines) : HasPrefix(lines[n], <<"S","u","b","j","e","c","t">>)}

InitFilter ==
    /\ \E d \in SeqsUpTo(FilterMails, 0, MaxMails) :
           \E mu \in {NoMutation} \cup {[k |-> "junk", at |-> n] : n \in SubjectLines(RenderDoc(d))} :
               /\ doc = d
               /\ mut = mu
               /\ input = Damage(RenderDoc(d), mu)
    /\ pos = 0
    /\ out = << >>
    /\ NoHeaderCalls
    /\ NoFunctionCall
    /\ flags \in FilterFlags
    /\ seen = {}
    /\ kept = << >>
    /\ producer = "read"
    /\ consumer = "recv"
    /\ queue = OpenQueue
    /\ got = << >>

ProduceUnfiltered ==
    /\ producer = "read"
    /\ \E r \in {ReadMessage(rs)} :
           /\ out' = Append(out, [m |-> r.m, err |-> r.err])
           /\ pos' = Len(input) - Len(r.rs)
           /\ IF r.err # Nil THEN producer' = "close" /\ queue' = queue
              ELSE producer' = "send" /\ queue' = [queue EXCEPT !.sending = << r.m >>]
    /\ UNCHANGED << input, doc, mut, hdr, ops, call, ret, flags, seen, kept, consumer, got >>

Produce ==
    /\ producer = "read"
    /\ \E r \in {ReadMessage(rs)} :
           /\ out' = Append(out, [m |-> r.m, err |-> r.err])
           /\ pos' = Len(input) - Len(r.rs)
           /\ IF r.err # Nil THEN producer' = "close" /\ queue' = queue
              ELSE IF keepFilter(flags, r.m)
                   THEN producer' = "send" /\ queue' = [queue EXCEPT !.sending = << r.m >>]
                   ELSE producer' = "read" /\ queue' = queue
    /\ UNCHANGED << input, doc, mut, hdr, ops, call, ret, flags, seen, kept, consumer, got >>

Deliver ==
    /\ producer = "send"
    /\ consumer = "recv"
    /\ ~queue.closed
    /\ got' = Append(got, queue.sending[1])
    /\ queue' = [queue EXCEPT !.sending = << >>]
    /\ producer' = "read"
    /\ consumer' = "print"
    /\ UNCHANGED << input, doc, mut, pos, out, hdr, ops, call, ret, flags, seen, kept >>

PrintMail ==
    /\ consumer = "print"
    /\ consumer' = "recv"
    /\ UNCHANGED << input, doc, mut, pos, out, hdr, ops, call, ret, flags, seen, kept,
                    producer, queue, got >>

CloseQueue ==
    /\ producer = "close"
    /\ queue' = [queue EXCEPT !.closed = TRUE]
    /\ producer' = "done"
    /\ UNCHANGED << input, doc, mut, pos, out, hdr, ops, call, ret, flags, seen, kept,
                    consumer, got >>

EndOfRange ==
    /\ consumer = "recv"
    /\ queue.closed
    /\ consumer' = "done"
    /\ UNCHANGED << input, doc, mut, pos, out, hdr, ops, call, ret, flags, seen, kept,
                    producer, queue, got >>

NextFilter == Produce \/ Deliver \/ PrintMail \/ CloseQueue \/ EndOfRange

(***************************************************************************)
(* The Go scheduler runs a goroutine that can take a step: weak fairness   *)
(* for the steps of the producer, for those of the consumer, and for the   *)
(* send that both take together.                                           *)
(***************************************************************************)
SpecFilter ==
    /\ InitFilter
    /\ [][NextFilter]_vars
    /\ WF_vars(Produce \/ CloseQueue)
    /\ WF_vars(Deliver)
    /\ WF_vars(PrintMail \/ EndOfRange)

(***************************************************************************)
(* C28.  The consumer receives exactly the messages that keep accepts, in  *)
(* stream order and each once: what it has received is always the accepted *)
(* messages read so far, but for one the producer is blocked sending, and  *)
(* when its loop ends it has received the accepted messages that stand     *)
(* before the first line ReadMessage fails on.  The producer closes the    *)
(* channel after the first error of ReadMessage and nothing is sent or     *)
(* received on it afterwards, and the loop of the consumer ends.           *)
(***************************************************************************)
Indices(n) == [i \in 1..n |-> i]

Accepted ==
    SelectSeq(Indices(Len(out)), LAMBDA i : out[i].err = Nil /\ keepFilter(flags, out[i].m))

Whole ==
    IF mut.k = "junk" THEN Cardinality({n \in 1..mut.at : input[n] = <<"F","r","o","m"," ","a","\n">>}) - 1
    ELSE Len(doc)

ExpectedMails ==
    SelectSeq(Indices(Whole), LAMBDA i :
        ~flags.noreply \/ \E f \in 1..Len(doc[i].hdr) : doc[i].hdr[f][1] = hdrInReplyTo)

SubjectsOf(list) == [i \in 1..Len(list) |-> << Digits[list[i]] >>]

Received == [i \in 1..Len(got) |-> Get(got[i].Header, <<"S","u","b","j","e","c","t">>)]

ChannelDelivers ==
    /\ Received = SubjectsOf(SubSeq(Accepted, 1, Len(got)))
    /\ [i \in 1..Len(got) |-> got[i]] = [i \in 1..Len(got) |-> out[Accepted[i]].m]
    /\ Len(Accepted) - Len(got) = (IF producer = "send" THEN 1 ELSE 0)
    /\ \A i \in 1..(Len(out) - 1) : out[i].err = Nil
    /\ producer \in {"close", "done"} <=> (out # << >> /\ out[Len(out)].err # Nil)
    /\ queue.closed <=> producer = "done"
    /\ queue.closed => queue.sending = << >>
    /\ consumer = "done" => queue.closed /\ Received = SubjectsOf(ExpectedMails)

C28_ConsumerReceivesAcceptedMessages ==
    /\ []ChannelDelivers
    /\ [][queue.closed => queue' = queue /\ got' = got /\ out' = out]_vars
    /\ <>(consumer = "done")

(***************************************************************************)
(* Under -no-reply: a message that is not a reply, dropped, two replies    *)
(* received in their order, the channel closed after io.EOF and the loop   *)
(* of the consumer ended.                                                  *)
(***************************************************************************)
C28_Witness ==
    /\ flags.noreply
    /\ Len(doc) = 3
    /\ doc[1].hdr = << >> /\ doc[2].hdr # << >> /\ doc[3].hdr # << >>
    /\ mut = NoMutation
    /\ consumer = "done"
    /\ Received = << <<"2">>, <<"3">> >>
    /\ out[4].err = EOF

(***************************************************************************)
(* A stream whose second message has a line without a colon in its header: *)
(* the first message is received, the producer closes the channel after    *)
(* the error and the third message is never read.                          *)
(***************************************************************************)
C28_WitnessParseError ==
    /\ ~flags.noreply
    /\ Len(doc) = 3
    /\ mut.k = "junk" /\ Whole = 1
    /\ consumer = "done"
    /\ Received = << <<"1">> >>
    /\ Len(out) = 2 /\ out[2].err = ErrMissingColon

=============================================================================
